--------------------------- MODULE OutboxPublisher ---------------------------
(* publishPending of DeliveryOutboxPublisherService and the recovery half of   *)
(* DeliveryMaintenanceService, which it awaits first when a minute has passed. *)
(* One publisher per process: its `publishing` flag is the program counter     *)
(* being off "idle", and nothing keeps two processes from publishing at once.  *)
(* The clean-up half of the maintenance is not modelled here.                  *)
EXTENDS Dispatcher

CONSTANTS Publishers,
          Take,         \* `take: 100` of every findMany
          MaxTries      \* bound: how often a row may be unpublished; the code has
                        \* none, and two publishers can go on doing it

ASSUME TakeAssumption == Take \in Nat \ {0} /\ MaxTries \in Nat

VARIABLE publisher      \* the snapshots each publisher has still to work off

PublisherPcs ==
    { "idle",       \* not publishing
      "stale",      \* in the loop of recoverStaleDeliveries
      "inspect",    \* in the loop of recoverStrandedPublishedOutbox, before getState
      "unpublish",  \*   ... and before the update of the row
      "read",       \* maintenance done, before reading the batch
      "add",        \* in the loop of publishPending, before Queue.add
      "mark",       \*   ... and before setting publishedAt
      "count" }     \* in its catch block

Snapshots == [delivery : Deliveries, resets : Nat, attempts : Nat]

(* stale and batch are the results of the last findMany not yet iterated over, *)
(* item the row (and the tries read with it) of the iteration under way.       *)
PublisherTypeOK ==
    publisher \in [Publishers -> [pc : PublisherPcs, stale : SUBSET Snapshots,
                                  batch : SUBSET Jobs, item : Jobs]]

Idle == [pc |-> "idle", stale |-> {}, batch |-> {}, item |-> NoJob]

PublisherInit == publisher = [p \in Publishers |-> Idle]

pubAt(p, pc) == publisher[p].pc = pc

(* What findMany with `take` may answer, in no order or the oldest rows first. *)
anyOf(S) == {T \in SUBSET S : Cardinality(T) = Take \/ (T = S /\ Cardinality(S) < Take)}
oldestOf(S) == {r \in S : Cardinality({q \in S : q < r}) < Take}

-----------------------------------------------------------------------------
BeginMaintenance(p) ==
    /\ pubAt(p, "idle")
    /\ \E T \in anyOf(StaleDeliveries) :
          publisher' = [publisher EXCEPT ![p].pc = "stale",
              ![p].stale = {[delivery |-> d, resets |-> delivery[d].resets,
                             attempts |-> delivery[d].attempts] : d \in T}]
    /\ UNCHANGED <<storeVars, queueVars, dispatcherVars, budget>>

RecoverStale(p) ==
    /\ pubAt(p, "stale")
    /\ \E s \in publisher[p].stale :
          /\ recoverStale(s)
          /\ publisher' = [publisher EXCEPT ![p].stale = @ \ {s}]
    /\ UNCHANGED <<queueVars, dispatcherVars, budget>>

FindStranded(p) ==
    /\ pubAt(p, "stale") /\ publisher[p].stale = {}
    /\ \E T \in anyOf(StrandedCandidates) :
          publisher' = [publisher EXCEPT ![p].pc = IF T = {} THEN "read" ELSE "inspect",
                                         ![p].batch = {jobId(r) : r \in T}]
    /\ UNCHANGED <<storeVars, queueVars, dispatcherVars, budget>>

(* After an iteration of the stranded loop.                                    *)
afterStranded(rest) == IF rest = {} THEN "read" ELSE "inspect"

InspectJob(p) ==
    /\ pubAt(p, "inspect")
    /\ \E j \in publisher[p].batch :
          LET rest == publisher[p].batch \ {j}
              recover == stranded(j) /\ j.tries < MaxTries
          IN  publisher' = [publisher EXCEPT ![p].batch = rest,
                  ![p].pc = IF recover THEN "unpublish" ELSE afterStranded(rest),
                  ![p].item = IF recover THEN j ELSE NoJob]
    /\ UNCHANGED <<storeVars, queueVars, dispatcherVars, budget>>

Unpublish(p) ==
    /\ pubAt(p, "unpublish")
    /\ unpublish(publisher[p].item.row)
    /\ publisher' = [publisher EXCEPT ![p].pc = afterStranded(publisher[p].batch),
                                      ![p].item = NoJob]
    /\ UNCHANGED <<queueVars, dispatcherVars, budget>>

ReadBatch(p) ==
    /\ publisher[p].pc \in {"idle", "read"}
    /\ publisher' = [publisher EXCEPT ![p].pc = IF DueRows = {} THEN "idle" ELSE "add",
                                      ![p].batch = {jobId(r) : r \in oldestOf(DueRows)}]
    /\ UNCHANGED <<storeVars, queueVars, dispatcherVars, budget>>

(* The next iteration of the publication loop takes the oldest row left.       *)
nextItem(p) == CHOOSE j \in publisher[p].batch : \A k \in publisher[p].batch : j.row <= k.row

startItem(p, pc) ==
    publisher' = [publisher EXCEPT ![p].pc = pc, ![p].item = nextItem(p),
                                   ![p].batch = @ \ {nextItem(p)}]

AddJob(p) ==
    /\ pubAt(p, "add")
    /\ add(nextItem(p))
    /\ startItem(p, "mark")
    /\ UNCHANGED <<storeVars, dispatcherVars, budget>>

MarkPublished(p) ==
    /\ pubAt(p, "mark")
    /\ setPublished(publisher[p].item.row)
    /\ publisher' = [publisher EXCEPT ![p].item = NoJob,
                        ![p].pc = IF publisher[p].batch = {} THEN "idle" ELSE "add"]
    /\ UNCHANGED <<queueVars, dispatcherVars, budget>>

(* The catch block counts the failure and rethrows, which ends the pass.       *)
CountFailure(p) ==
    /\ pubAt(p, "count")
    /\ countFailure(publisher[p].item.row)
    /\ publisher' = [publisher EXCEPT ![p] = Idle]
    /\ UNCHANGED <<queueVars, dispatcherVars, budget>>

PublisherStep(p) ==
    \/ RecoverStale(p) \/ FindStranded(p) \/ InspectJob(p) \/ Unpublish(p)
    \/ ReadBatch(p) \/ AddJob(p) \/ MarkPublished(p) \/ CountFailure(p)

-----------------------------------------------------------------------------
(* Queue.add throws; the job may have been added before the answer was lost.   *)
AddThrows(p) ==
    /\ pubAt(p, "add")
    /\ Spend("add")
    /\ add(nextItem(p)) \/ UNCHANGED queueVars
    /\ startItem(p, "count")
    /\ UNCHANGED <<storeVars, dispatcherVars>>

(* The update of publishedAt throws, after the job was added; it may have been *)
(* made before the answer was lost.                                            *)
MarkThrows(p) ==
    /\ pubAt(p, "mark")
    /\ Spend("db")
    /\ setPublished(publisher[p].item.row) \/ UNCHANGED storeVars
    /\ publisher' = [publisher EXCEPT ![p].pc = "count"]
    /\ UNCHANGED <<queueVars, dispatcherVars>>

(* The process dies, or a call outside the try throws: the pass is given up,   *)
(* `finally` (or a restart) resets the flag, and the timer runs it again.      *)
Abort(p) ==
    /\ ~pubAt(p, "idle")
    /\ Spend("crash")
    /\ publisher' = [publisher EXCEPT ![p] = Idle]
    /\ UNCHANGED <<storeVars, queueVars, dispatcherVars>>

PublisherFault(p) == AddThrows(p) \/ MarkThrows(p) \/ Abort(p)
=============================================================================
