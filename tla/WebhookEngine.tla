---------------------------- MODULE WebhookEngine ----------------------------
(* The delivery path of the engine as one system: the HTTP API accepts events, *)
(* replays deliveries and switches endpoints, publishers move outbox rows to   *)
(* the queue and recover what was lost, workers send.  They share the tables   *)
(* and the queue; time and the faults of FaultBudget run beside them.          *)
EXTENDS OutboxPublisher

VARIABLE replaying      \* deliveries a replay request has found not successful

vars == <<storeVars, queueVars, dispatcherVars, publisher, replaying, budget>>

TypeOK ==
    /\ StoreTypeOK
    /\ QueueTypeOK
    /\ DispatcherTypeOK
    /\ PublisherTypeOK
    /\ FaultTypeOK
    /\ replaying \in SUBSET Deliveries

Init ==
    /\ StoreInit /\ QueueInit /\ DispatcherInit /\ PublisherInit /\ FaultInit
    /\ replaying = {}

-----------------------------------------------------------------------------
(* POST /events.  The active subscribed endpoints are read before the          *)
(* transaction, and may have been switched off since: as all were active to    *)
(* begin with, any set of them is a possible answer.  The call of              *)
(* publishPending is a publisher's ReadBatch; a busy publisher ignores it.     *)
Ingest(e) ==
    /\ \E subscribed \in SUBSET Endpoints : createForTenant(e, subscribed)
    /\ UNCHANGED <<queueVars, dispatcherVars, publisher, replaying, budget>>

(* POST /deliveries/:id/replay reads the delivery, then resets it.             *)
ReplayCheck(d) ==
    /\ d \notin replaying
    /\ delivery[d].status \notin {"NONE", "SUCCESS"}
    /\ Spend("replay")
    /\ replaying' = replaying \cup {d}
    /\ UNCHANGED <<storeVars, queueVars, dispatcherVars, publisher>>

ReplayReset(d) ==
    /\ d \in replaying
    /\ resetForReplay(d)
    /\ replaying' = replaying \ {d}
    /\ UNCHANGED <<queueVars, dispatcherVars, publisher, budget>>

(* PATCH and DELETE of an endpoint.                                            *)
ToggleEndpoint(p) ==
    /\ Spend("toggle")
    /\ setActive(p)
    /\ UNCHANGED <<queueVars, dispatcherVars, publisher, replaying>>

(* The last claim becomes older than staleDeliveryAge; it takes a slow send    *)
(* for that to happen while the worker that made it is still at work.          *)
Age(d) ==
    /\ \A w \in Workers : ~Holds(w, d)
    /\ age(d)
    /\ UNCHANGED <<queueVars, dispatcherVars, publisher, replaying, budget>>

AgeHeld(d) ==
    /\ \E w \in Workers : Holds(w, d)
    /\ Spend("slow")
    /\ age(d)
    /\ UNCHANGED <<queueVars, dispatcherVars, publisher, replaying>>

-----------------------------------------------------------------------------
Api ==
    \/ \E e \in Events : Ingest(e)
    \/ \E d \in Deliveries : ReplayCheck(d) \/ ReplayReset(d)
    \/ \E p \in Endpoints : ToggleEndpoint(p)

Time ==
    \/ RowDue /\ UNCHANGED <<queueVars, dispatcherVars, publisher, replaying, budget>>
    \/ \E d \in Deliveries : Age(d) \/ AgeHeld(d)

QueueFault ==
    \/ (Purge \/ LoseJob) /\ UNCHANGED <<storeVars, dispatcherVars, publisher, replaying>>
    \/ (StallOrphan \/ StallLive) /\ UNCHANGED <<publisher, replaying>>

Next ==
    \/ Api
    \/ Time
    \/ QueueFault
    \/ \E w \in Workers :
          (WorkerStep(w) \/ WorkerFault(w)) /\ UNCHANGED <<publisher, replaying>>
    \/ \E p \in Publishers :
          (BeginMaintenance(p) \/ PublisherStep(p) \/ PublisherFault(p)) /\ UNCHANGED replaying

Spec == Init /\ [][Next]_vars

(* Workers and publishers run on; the timer calls publishPending for ever, and *)
(* once a minute with maintenance; rows fall due, claims age and BullMQ checks *)
(* for stalled jobs.  Nothing forces a request, a fault or an answer.          *)
Fairness ==
    /\ \A w \in Workers : WF_vars(WorkerStep(w) /\ UNCHANGED <<publisher, replaying>>)
    /\ \A p \in Publishers : /\ WF_vars(PublisherStep(p) /\ UNCHANGED replaying)
                             /\ WF_vars(BeginMaintenance(p) /\ UNCHANGED replaying)
    /\ \A d \in Deliveries : WF_vars(Age(d)) /\ WF_vars(ReplayReset(d))
    /\ WF_vars(RowDue /\ UNCHANGED <<queueVars, dispatcherVars, publisher, replaying, budget>>)
    /\ WF_vars(StallOrphan /\ UNCHANGED <<publisher, replaying>>)

FairSpec == Spec /\ Fairness

-----------------------------------------------------------------------------
(* No replay has been asked for.                                               *)
NotReplayed(d) == delivery[d].resets = 0

(* SingleSender: unless a delivery is replayed, or a send outlives the stale   *)
(* age, at most one worker at a time is between claiming and recording it,     *)
(* whatever jobs are duplicated, lost or run again.                            *)
SingleSender ==
    \A d \in Deliveries : NotReplayed(d) /\ Spent("slow") = 0 =>
        \A v, w \in Workers : Holds(v, d) /\ Holds(w, d) => v = w

(* AttemptOnce: even a worker that recovery has given up on never shares its   *)
(* attempt number with another one: an attempt is claimed once.                *)
AttemptOnce ==
    \A d \in Deliveries : NotReplayed(d) =>
        \A v, w \in Workers :
            Holds(v, d) /\ Holds(w, d) /\ v # w => expectedAttempt(v) # expectedAttempt(w)

(* NextAttemptScheduled: without a refusal by the rate limiter, a replay or an *)
(* overlong send, a delivery waiting for an attempt has an outbox row for      *)
(* exactly that attempt.  With no such row no claim could succeed.             *)
NextAttemptScheduled ==
    \A d \in Deliveries :
        /\ NotReplayed(d) /\ Spent("limit") = 0 /\ Spent("slow") = 0
        /\ delivery[d].status \in {"PENDING", "FAILED"}
        => \E r \in DOMAIN outbox : /\ outbox[r].delivery = d
                                    /\ outbox[r].attempt = delivery[d].attempts + 1

(* AttemptsBounded: an attempt beyond maxAttempts takes a worker that never    *)
(* recorded its outcome, one for each.                                         *)
AttemptsBounded ==
    \A d \in Deliveries : delivery[d].attempts <= MaxAttempts + Spent("crash") + Spent("db") + Spent("slow")

(* AckedOnce: without a refusal by the rate limiter, the receiver accepts a    *)
(* delivery again only after the outcome of an earlier acceptance was lost, or *)
(* after a replay.  Refusals make a replayed delivery PENDING again while jobs *)
(* of its first life may still claim it.                                       *)
AckedOnce ==
    \A d \in Deliveries : Spent("limit") = 0 =>
        acks[d] <= 1 + Spent("crash") + Spent("db") + Spent("slow") + Spent("replay")

(* EventAgrees: with no marking transaction open, a finished event has the     *)
(* status its deliveries amount to.                                            *)
EventAgrees ==
    \A e \in Events :
        LET statuses == {delivery[d].status : d \in DeliveriesOf(e)}
        IN  (\A t \in tx : t.delivery[1] # e) /\ statuses # {} /\ statuses \subseteq Terminal
              => event[e] = calculateEventStatus(statuses)

(* Lifecycle: each delivery goes through the life DeliveryLifecycle describes, *)
(* as long as nobody but a claimer writes outcomes: no refusal by the rate     *)
(* limiter, no endpoint switched, no replay, no commit whose answer was lost,  *)
(* no overlong send.  Jobs may be duplicated, lost, run again and their        *)
(* workers die.                                                                *)
OnlyClaimersWrite(d) ==
    /\ NotReplayed(d)'
    /\ \A kind \in {"limit", "toggle", "db", "slow"} : Spent(kind)' = 0

Life(d) == INSTANCE DeliveryLifecycle
              WITH status <- delivery[d].status, attempts <- delivery[d].attempts,
                   holders <- {w \in Workers : Holds(w, d)}

Lifecycle ==
    /\ \A d \in Deliveries : Life(d)!Init
    /\ [][\A d \in Deliveries :
            OnlyClaimersWrite(d) => [Life(d)!Next]_(Life(d)!lifeVars)]_vars

-----------------------------------------------------------------------------
(* A send refused by the rate limiter whose job then runs again: the reset of  *)
(* the attempt counter is undone by the claim of the rerun: no row fits it.    *)
RefusedRerun ==
    Spent("limit") > 0 /\ Spent("crash") + Spent("db") + Spent("stall") > 0

(* There is a row for the retry, but its job has failed before the claim, or   *)
(* is lost.                                                                    *)
RetryLost(d) ==
    LET fitting == {r \in DOMAIN outbox : /\ outbox[r].delivery = d
                                         /\ outbox[r].attempt = delivery[d].attempts + 1}
    IN  /\ delivery[d].status = "FAILED" /\ fitting # {}
        /\ \A r \in fitting : outbox[r].published /\ stranded(jobId(r))

(* Settles: every accepted delivery ends, however its workers and calls fail,  *)
(* and however often it is published, recovered, refused or else rerun, unless *)
(* the job of a retry is lost.                                                 *)
Settles ==
    \A d \in Deliveries :
        delivery[d].status # "NONE"
            ~> delivery[d].status \in Terminal \/ RetryLost(d) \/ RefusedRerun

(* ClaimsResolve: a delivery does not stay PROCESSING for ever.                *)
ClaimsResolve ==
    \A d \in Deliveries : delivery[d].status = "PROCESSING" ~> delivery[d].status # "PROCESSING"

(* PublicationRecovers: a pending delivery whose job is lost is published and  *)
(* attempted again.                                                            *)
PublicationRecovers ==
    \A d \in Deliveries :
        delivery[d].status = "PENDING" ~> delivery[d].status # "PENDING" \/ RefusedRerun

-----------------------------------------------------------------------------
(* What the documentation says and the runs named in PROJECT.json refute.      *)

(* RetryResumes: a delivery that waits for a retry is attempted again.         *)
RetryResumes ==
    \A d \in Deliveries : delivery[d].status = "FAILED" ~> delivery[d].status # "FAILED"

(* PendingResumes: no pending delivery is left behind, refused or not.         *)
PendingResumes ==
    \A d \in Deliveries : delivery[d].status = "PENDING" ~> delivery[d].status # "PENDING"

(* EventSettles: an event whose deliveries have all ended does not stay        *)
(* PROCESSING; the clean-up of old events only considers DONE and FAILED.      *)
EventSettles ==
    \A e \in Events :
        event[e] = "PROCESSING" /\ (\A d \in DeliveriesOf(e) : delivery[d].status \in Terminal)
            ~> \/ event[e] \in {"DONE", "FAILED"}
               \/ \E d \in DeliveriesOf(e) : delivery[d].status \in Unfinished
=============================================================================
