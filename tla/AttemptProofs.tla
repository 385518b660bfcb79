---------------------------- MODULE AttemptProofs ----------------------------
(* What a step of WebhookEngine does to a delivery, to its rows and to the     *)
(* workers that hold it: the steps of all actors fall into a few kinds, and    *)
(* every step is of one of them (StepKinds).  Then, kind by kind, the attempts *)
(* of a delivery: each is claimed once, there are no more of them than lost    *)
(* outcomes account for, and the next one is always scheduled.                 *)
EXTENDS WebhookEngineProofs

(* The rows a step leaves: those there were, or one more.                      *)
NoRow == DOMAIN outbox' = DOMAIN outbox

NewRowOf(c, n) ==
    /\ \E r \in DOMAIN outbox' : outbox'[r].delivery = c /\ outbox'[r].attempt = n
    /\ \A r \in DOMAIN outbox' :
          r \in DOMAIN outbox \/ (outbox'[r].delivery = c /\ outbox'[r].attempt = n)

(* It writes the row of c alone, and sets its status.                          *)
WritesOnly(c) == \A d \in Deliveries : d # c => delivery'[d] = delivery[d]

SetsStatus(c, status) ==
    /\ WritesOnly(c)
    /\ delivery'[c].status = status
    /\ delivery'[c].attempts = delivery[c].attempts
    /\ delivery'[c].resets = delivery[c].resets
    /\ delivery'[c].aged = delivery[c].aged

(* A worker gets its answer, or only an exception.                             *)
Answers(w, pc) ==
    \/ goto(w, pc) /\ UNCHANGED budget
    \/ goto(w, afterThrow(w)) /\ Spend("db")

FewerSnapshots == \A p \in Publishers : publisher'[p].stale \subseteq publisher[p].stale

-----------------------------------------------------------------------------
Begins(w, c) ==
    /\ worker[w].pc = "claim" /\ deliveryId(w) = c
    /\ expectedAttempt(w) = delivery[c].attempts + 1
    /\ delivery[c].status \in {"PENDING", "FAILED"}
    /\ WritesOnly(c)
    /\ delivery'[c].status = "PROCESSING"
    /\ delivery'[c].attempts = delivery[c].attempts + 1
    /\ delivery'[c].resets = delivery[c].resets
    /\ ~delivery'[c].aged
    /\ NoRow /\ Answers(w, "send")
    /\ UNCHANGED <<tx, active, publisher>>

Records(w, c) ==
    /\ worker[w].pc \in MarkingPcs /\ deliveryId(w) = c
    /\ \E t \in tx : /\ t.by = w /\ t.delivery = c
                     /\ SetsStatus(c, t.status)
                     /\ tx' = tx \ {t}
    /\ NoRow /\ Answers(w, "done")
    /\ UNCHANGED <<active, publisher>>

Retries(w, c) ==
    /\ worker[w].pc = "retry" /\ deliveryId(w) = c
    /\ SetsStatus(c, "FAILED")
    /\ NewRowOf(c, expectedAttempt(w) + 1) /\ Answers(w, "done")
    /\ UNCHANGED <<tx, active, publisher>>

Delays(w, c) ==
    /\ worker[w].pc = "delay" /\ deliveryId(w) = c
    /\ SetsStatus(c, "PENDING")
    /\ NewRowOf(c, expectedAttempt(w)) /\ Answers(w, "done")
    /\ UNCHANGED <<tx, active, publisher>>

(* The other steps of a worker write no delivery and no row.                   *)
Works(w) ==
    /\ \/ TakeJob(w) \/ Find(w) \/ CheckRateLimit(w) \/ Send(w) \/ BeginMark(w) \/ Finish(w)
       \/ CallThrows(w) \/ CrashWorker(w)
       \/ worker[w].pc = "claim" /\ goto(w, "done") /\ UNCHANGED <<tx, active, budget>>
    /\ NoRow /\ UNCHANGED <<delivery, active, publisher>>

Recovers(c) ==
    /\ \E p \in Publishers : \E s \in publisher[p].stale :
          s.delivery = c /\ s.attempts = delivery[c].attempts /\ s.resets = delivery[c].resets
    /\ delivery[c].status = "PROCESSING"
    /\ SetsStatus(c, "FAILED")
    /\ NewRowOf(c, delivery[c].attempts + 1) /\ FewerSnapshots
    /\ UNCHANGED <<worker, tx, active, budget>>

Resets(c) ==
    /\ c \in replaying
    /\ WritesOnly(c)
    /\ delivery'[c].status = "PENDING"
    /\ delivery'[c].attempts = 0
    /\ delivery'[c].resets = delivery[c].resets + 1
    /\ ~delivery'[c].aged
    /\ NewRowOf(c, 1)
    /\ replaying' = replaying \ {c}
    /\ UNCHANGED <<worker, tx, active, budget, publisher>>

Ages(c) ==
    /\ delivery[c].status = "PROCESSING"
    /\ WritesOnly(c)
    /\ delivery'[c].status = "PROCESSING"
    /\ delivery'[c].attempts = delivery[c].attempts
    /\ delivery'[c].resets = delivery[c].resets
    /\ delivery'[c].aged
    /\ \/ ~Held(c) /\ UNCHANGED budget
       \/ Spend("slow")
    /\ NoRow
    /\ UNCHANGED <<worker, tx, active, publisher>>

(* An event is accepted: its deliveries are new, and get their first row.      *)
Accepts(e) ==
    /\ event[e] = "NONE"
    /\ \A d \in Deliveries :
          \/ delivery'[d] = delivery[d]
          \/ /\ d[1] = e /\ delivery'[d].status = "PENDING"
             /\ delivery'[d].attempts = delivery[d].attempts
             /\ delivery'[d].resets = delivery[d].resets
             /\ delivery'[d].aged = delivery[d].aged
             /\ \E r \in DOMAIN outbox' : outbox'[r].delivery = d /\ outbox'[r].attempt = 1
    /\ \A r \in DOMAIN outbox' :
          r \in DOMAIN outbox \/ (outbox'[r].delivery[1] = e /\ outbox'[r].attempt = 1)
    /\ UNCHANGED <<worker, tx, active, budget, publisher>>

Switches ==
    /\ Spend("toggle")
    /\ NoRow /\ UNCHANGED <<delivery, worker, tx, publisher>>

Snaps(p) ==
    /\ BeginMaintenance(p)
    /\ NoRow /\ UNCHANGED <<delivery, worker, tx, active, budget>>

Rests ==
    /\ UNCHANGED budget \/ \E kind \in FaultKinds : Spend(kind)
    /\ NoRow /\ FewerSnapshots
    /\ UNCHANGED <<delivery, worker, tx, active>>

AnyKind ==
    \/ \E w \in Workers : \/ Works(w)
                          \/ \E c \in Deliveries : \/ Begins(w, c) \/ Records(w, c)
                                                   \/ Retries(w, c) \/ Delays(w, c)
    \/ \E c \in Deliveries : Recovers(c) \/ Resets(c) \/ Ages(c)
    \/ \E e \in Events : Accepts(e)
    \/ \E p \in Publishers : Snaps(p)
    \/ Switches \/ Rests

StepKind == StoreStep /\ AnyKind

-----------------------------------------------------------------------------
LEMMA AppendedRow ==
    ASSUME Typed, NEW row \in OutboxRow, outbox' = Append(outbox, row)
    PROVE  NewRowOf(row.delivery, row.attempt)
<1>1. outbox \in Seq(OutboxRow)
  BY TypedParts DEF StoreTypeOK
<1>2. /\ DOMAIN outbox' = DOMAIN outbox \cup {Len(outbox) + 1}
      /\ outbox'[Len(outbox) + 1] = row
  BY <1>1, AppendRow
<1> QED
  BY <1>2 DEF NewRowOf

LEMMA NewRowTyped ==
    ASSUME NEW c \in Deliveries, NEW n \in Nat, NEW due \in BOOLEAN
    PROVE  /\ NewRow(c, n, due) \in OutboxRow
           /\ NewRow(c, n, due).delivery = c /\ NewRow(c, n, due).attempt = n
  BY DEF NewRow, OutboxRow

LEMMA StatusSet ==
    ASSUME Typed, NEW c \in Deliveries, NEW status,
           delivery' = [delivery EXCEPT ![c] = [delivery[c] EXCEPT !.status = status]]
    PROVE  SetsStatus(c, status)
  BY TypedParts DEF StoreTypeOK, DeliveryRow, SetsStatus, WritesOnly

LEMMA BeginsKind ==
    ASSUME Typed, NEW w \in Workers, at(w, "claim"), Answers(w, "send"),
           claimForProcessing(deliveryId(w), expectedAttempt(w)), UNCHANGED publisher
    PROVE  StepKind
<1>1. worker[w].pc = "claim"
  BY DEF at
<1>2. PICK c \in Deliveries, n \in Nat : c = deliveryId(w) /\ n = expectedAttempt(w)
  BY <1>1, JobTyped
<1>3. StoreStep
  BY <1>2, ClaimTyped
<1>4. /\ delivery[c].attempts = n - 1 /\ delivery[c].status \in {"PENDING", "FAILED"}
      /\ delivery' = [delivery EXCEPT ![c].status = "PROCESSING", ![c].attempts = @ + 1,
                                      ![c].aged = FALSE]
      /\ UNCHANGED <<outbox, tx, active>>
  BY <1>2 DEF claimForProcessing, claimable
<1>5. delivery \in [Deliveries -> DeliveryRow]
  BY TypedParts DEF StoreTypeOK
<1>6. /\ WritesOnly(c) /\ delivery'[c].status = "PROCESSING"
      /\ delivery'[c].attempts = delivery[c].attempts + 1
      /\ delivery'[c].resets = delivery[c].resets /\ ~delivery'[c].aged
  BY <1>4, <1>5 DEF WritesOnly, DeliveryRow
<1>7. n = delivery[c].attempts + 1
  BY <1>2, <1>4, <1>5 DEF DeliveryRow
<1>8. Begins(w, c)
  BY <1>1, <1>2, <1>4, <1>6, <1>7 DEF Begins, NoRow
<1> QED
  BY <1>2, <1>3, <1>8 DEF StepKind, AnyKind

LEMMA RecordsKind ==
    ASSUME Typed, NEW w \in Workers, worker[w].pc \in MarkingPcs, Answers(w, "done"),
           commitMark(w, deliveryId(w)), UNCHANGED publisher
    PROVE  StepKind
<1>1. worker[w].pc # "idle"
  BY DEF MarkingPcs
<1>2. PICK c \in Deliveries : c = deliveryId(w)
  BY <1>1, JobTyped
<1>3. StoreStep
  BY <1>2, CommitMarkTyped
<1>4. PICK t \in tx :
        /\ t.by = w /\ t.delivery = c
        /\ delivery' = [delivery EXCEPT ![c].status = t.status]
        /\ tx' = tx \ {t} /\ UNCHANGED <<outbox, active>>
  BY <1>2 DEF commitMark
<1>5. SetsStatus(c, t.status)
  BY <1>4, TypedParts DEF StoreTypeOK, DeliveryRow, SetsStatus, WritesOnly
<1>6. Records(w, c)
  BY <1>2, <1>4, <1>5 DEF Records, NoRow
<1> QED
  BY <1>2, <1>3, <1>6 DEF StepKind, AnyKind

LEMMA RetriesKind ==
    ASSUME Typed, NEW w \in Workers, at(w, "retry"), Answers(w, "done"),
           markFailedAndSchedule(deliveryId(w), expectedAttempt(w) + 1), UNCHANGED publisher
    PROVE  StepKind
<1>1. worker[w].pc = "retry"
  BY DEF at
<1>2. PICK c \in Deliveries, n \in Nat : c = deliveryId(w) /\ n = expectedAttempt(w) + 1
  BY <1>1, JobTyped
<1>3. StoreStep
  BY <1>2, MarkFailedTyped
<1>4. /\ delivery' = [delivery EXCEPT ![c] = [delivery[c] EXCEPT !.status = "FAILED"]]
      /\ outbox' = Append(outbox, NewRow(c, n, FALSE)) /\ UNCHANGED <<tx, active>>
  BY <1>2 DEF markFailedAndSchedule, reschedule
<1>5. SetsStatus(c, "FAILED")
  BY <1>4, StatusSet
<1>6. NewRowOf(c, n)
  BY <1>4, NewRowTyped, AppendedRow
<1>7. Retries(w, c)
  BY <1>1, <1>2, <1>4, <1>5, <1>6 DEF Retries
<1> QED
  BY <1>2, <1>3, <1>7 DEF StepKind, AnyKind

LEMMA DelaysKind ==
    ASSUME Typed, NEW w \in Workers, at(w, "delay"), Answers(w, "done"),
           markRateLimitedAndSchedule(deliveryId(w), expectedAttempt(w)), UNCHANGED publisher
    PROVE  StepKind
<1>1. worker[w].pc = "delay"
  BY DEF at
<1>2. PICK c \in Deliveries, n \in Nat : c = deliveryId(w) /\ n = expectedAttempt(w)
  BY <1>1, JobTyped
<1>3. StoreStep
  BY <1>2, MarkRateLimitedTyped
<1>4. /\ delivery' = [delivery EXCEPT ![c] = [delivery[c] EXCEPT !.status = "PENDING"]]
      /\ outbox' = Append(outbox, NewRow(c, n, FALSE)) /\ UNCHANGED <<tx, active>>
  BY <1>2 DEF markRateLimitedAndSchedule, reschedule
<1>5. SetsStatus(c, "PENDING")
  BY <1>4, StatusSet
<1>6. NewRowOf(c, n)
  BY <1>4, NewRowTyped, AppendedRow
<1>7. Delays(w, c)
  BY <1>1, <1>2, <1>4, <1>5, <1>6 DEF Delays
<1> QED
  BY <1>2, <1>3, <1>7 DEF StepKind, AnyKind

LEMMA WorkerKind ==
    ASSUME Typed, NEW w \in Workers, WorkerStep(w) \/ WorkerFault(w), UNCHANGED publisher
    PROVE  StepKind
<1> USE DEF at
<1>1. ASSUME Works(w), StoreStep PROVE StepKind
  BY <1>1 DEF StepKind, AnyKind
<1>2. CASE TakeJob(w) \/ Find(w) \/ CheckRateLimit(w) \/ Send(w) \/ Finish(w)
  <2>1. UNCHANGED storeVars
    BY <1>2 DEF TakeJob, Find, CheckRateLimit, Send, Finish
  <2> QED BY <1>1, <1>2, <2>1, UnchangedStore DEF Works, NoRow, storeVars
<1>3. CASE MarkRateLimited(w)
  BY <1>3, DelaysKind DEF MarkRateLimited, Answers
<1>4. CASE Claim(w)
  <2>1. CASE claimForProcessing(deliveryId(w), expectedAttempt(w)) /\ goto(w, "send")
    BY <1>4, <2>1, BeginsKind DEF Claim, Answers
  <2>2. CASE goto(w, "done") /\ UNCHANGED storeVars
    BY <1>1, <1>4, <2>2, UnchangedStore DEF Claim, Works, NoRow, storeVars
  <2> QED BY <1>4, <2>1, <2>2 DEF Claim
<1>5. CASE BeginMark(w)
  <2>1. MarkStatus(worker[w].pc) \in Terminal /\ worker[w].pc # "idle"
    BY <1>5 DEF BeginMark, MarkStatus, MarkingPcs, Terminal
  <2>2. StoreStep
    BY <1>5, <2>1, JobTyped, BeginMarkTyped DEF BeginMark
  <2> QED BY <1>1, <1>5, <2>2 DEF Works, NoRow, BeginMark, beginMark
<1>6. CASE CommitMark(w)
  BY <1>6, RecordsKind DEF CommitMark, Answers
<1>7. CASE MarkFailed(w)
  BY <1>7, RetriesKind DEF MarkFailed, Answers
<1>8. CASE CallThrows(w) \/ CrashWorker(w)
  <2>1. StoreStep
    BY <1>8, RollbackTyped DEF CallThrows, CrashWorker
  <2> QED BY <1>1, <1>8, <2>1 DEF Works, NoRow, CallThrows, CrashWorker, rollback
<1>9. CASE CommitThenThrow(w)
  <2>1. Answers(w, "send") /\ Answers(w, "done")
    BY <1>9 DEF CommitThenThrow, Answers
  <2> QED
    BY <1>9, <2>1, RecordsKind, DelaysKind, BeginsKind, RetriesKind DEF CommitThenThrow
<1> QED
  BY <1>2, <1>3, <1>4, <1>5, <1>6, <1>7, <1>8, <1>9 DEF WorkerStep, WorkerFault

-----------------------------------------------------------------------------
LEMMA StaleKept ==
    ASSUME Typed, NEW p \in Publishers, PublisherStep(p) \/ PublisherFault(p)
    PROVE  FewerSnapshots
<1>1. \A q \in Publishers : q # p => publisher'[q] = publisher[q]
  BY PublisherRecord DEF PublisherStep, PublisherFault, RecoverStale, FindStranded, InspectJob,
     Unpublish, ReadBatch, AddJob, MarkPublished, CountFailure, AddThrows, MarkThrows, Abort, startItem
<1>2. publisher'[p].stale \subseteq publisher[p].stale
  <2>1. CASE FindStranded(p)
    BY <2>1, PublisherRecord DEF FindStranded
  <2>2. CASE InspectJob(p)
    BY <2>2, PublisherRecord DEF InspectJob
  <2>3. CASE Unpublish(p)
    BY <2>3, PublisherRecord DEF Unpublish
  <2>4. CASE ReadBatch(p)
    BY <2>4, PublisherRecord DEF ReadBatch
  <2>5. CASE MarkPublished(p) \/ MarkThrows(p)
    BY <2>5, PublisherRecord DEF MarkPublished, MarkThrows
  <2>6. CASE AddJob(p) \/ AddThrows(p)
    BY <2>6, PublisherRecord DEF AddJob, AddThrows, startItem
  <2>7. CASE RecoverStale(p)
    BY <2>7, PublisherRecord DEF RecoverStale
  <2>8. CASE CountFailure(p) \/ Abort(p)
    BY <2>8, PublisherRecord DEF CountFailure, Abort, Idle
  <2> QED
    BY <2>1, <2>2, <2>3, <2>4, <2>5, <2>6, <2>7, <2>8 DEF PublisherStep, PublisherFault
<1> QED
  BY <1>1, <1>2 DEF FewerSnapshots

LEMMA RecoversKind ==
    ASSUME Typed, NEW p \in Publishers, RecoverStale(p)
    PROVE  StepKind
<1>1. PICK s \in publisher[p].stale : recoverStale(s)
  BY DEF RecoverStale
<1>2. s \in Snapshots
  BY PublisherRecord
<1>3. PICK c \in Deliveries, n \in Nat : c = s.delivery /\ n = s.attempts
  BY <1>2 DEF Snapshots
<1>4. StoreStep /\ UNCHANGED <<worker, tx, active, budget>>
  BY <1>1, <1>2, RecoverTyped DEF RecoverStale, dispatcherVars, recoverStale
<1>5. FewerSnapshots
  BY StaleKept DEF PublisherStep
<1>6. CASE UNCHANGED <<delivery, outbox>>
  <2>1. Rests
    BY <1>4, <1>5, <1>6 DEF Rests, NoRow
  <2> QED BY <1>4, <2>1 DEF StepKind, AnyKind
<1>7. CASE /\ delivery[c].status = "PROCESSING" /\ delivery[c].attempts = n
           /\ delivery[c].resets = s.resets
           /\ delivery' = [delivery EXCEPT ![c] = [delivery[c] EXCEPT !.status = "FAILED"]]
           /\ outbox' = Append(outbox, NewRow(c, n + 1, TRUE))
  <2>1. SetsStatus(c, "FAILED")
    BY <1>7, StatusSet
  <2>2. NewRowOf(c, n + 1)
    <3>1. n + 1 \in Nat
      BY <1>3
    <3> QED BY <1>7, <3>1, NewRowTyped, AppendedRow
  <2>3. Recovers(c)
    BY <1>3, <1>4, <1>5, <1>7, <2>1, <2>2 DEF Recovers
  <2> QED BY <1>4, <2>3 DEF StepKind, AnyKind
<1> QED
  BY <1>1, <1>3, <1>6, <1>7 DEF recoverStale, reschedule

LEMMA PublisherKind ==
    ASSUME Typed, NEW p \in Publishers,
           BeginMaintenance(p) \/ PublisherStep(p) \/ PublisherFault(p)
    PROVE  StepKind
<1> USE DEF pubAt
<1>1. CASE BeginMaintenance(p)
  <2>1. StoreStep /\ Snaps(p)
    BY <1>1, UnchangedStore DEF BeginMaintenance, Snaps, NoRow, storeVars, dispatcherVars
  <2> QED BY <2>1 DEF StepKind, AnyKind
<1>2. CASE RecoverStale(p)
  BY <1>2, RecoversKind
<1>3. ASSUME StoreStep, NoRow, UNCHANGED <<delivery, tx, active, worker>>,
             UNCHANGED budget \/ \E kind \in FaultKinds : Spend(kind),
             PublisherStep(p) \/ PublisherFault(p)
      PROVE  StepKind
  BY <1>3, StaleKept DEF StepKind, AnyKind, Rests
<1>4. CASE Unpublish(p) \/ MarkPublished(p) \/ CountFailure(p)
  <2>1. publisher[p].item.row \in DOMAIN outbox
    BY <1>4, PublisherRecord DEF Unpublish, MarkPublished, CountFailure
  <2>2. StoreStep /\ NoRow
    BY <1>4, <2>1, RowUpdateTyped DEF Unpublish, MarkPublished, CountFailure, NoRow
  <2> QED
    BY <1>3, <1>4, <2>2 DEF Unpublish, MarkPublished, CountFailure, dispatcherVars, PublisherStep,
       unpublish, setPublished, countFailure
<1>5. CASE FindStranded(p) \/ InspectJob(p) \/ ReadBatch(p) \/ AddJob(p)
  <2>1. UNCHANGED storeVars
    BY <1>5 DEF FindStranded, InspectJob, ReadBatch, AddJob
  <2> QED
    BY <1>3, <1>5, <2>1, UnchangedStore
    DEF FindStranded, InspectJob, ReadBatch, AddJob, storeVars, dispatcherVars, PublisherStep, NoRow
<1>6. CASE AddThrows(p) \/ Abort(p)
  <2>1. UNCHANGED storeVars
    BY <1>6 DEF AddThrows, Abort
  <2> QED
    BY <1>3, <1>6, <2>1, UnchangedStore
    DEF PublisherFault, AddThrows, Abort, storeVars, dispatcherVars, FaultKinds, NoRow
<1>7. CASE MarkThrows(p)
  <2>1. publisher[p].item.row \in DOMAIN outbox
    BY <1>7, PublisherRecord DEF MarkThrows
  <2>2. StoreStep /\ NoRow /\ UNCHANGED <<delivery, tx, active>>
    BY <1>7, <2>1, RowUpdateTyped, UnchangedStore DEF MarkThrows, storeVars, NoRow, setPublished
  <2> QED
    BY <1>3, <1>7, <2>2 DEF MarkThrows, dispatcherVars, PublisherFault, FaultKinds
<1> QED
  BY <1>1, <1>2, <1>4, <1>5, <1>6, <1>7 DEF PublisherStep, PublisherFault

-----------------------------------------------------------------------------
(* Rows that have no equal in a list of as many as there are endpoints name    *)
(* each of them.                                                               *)
LEMMA EveryoneInOrder ==
    ASSUME NEW S \in SUBSET Endpoints, NEW order \in [1..Cardinality(S) -> S],
           \A i, j \in DOMAIN order : order[i] = order[j] => i = j
    PROVE  \A x \in S : \E i \in 1..Cardinality(S) : order[i] = x
<1>1. IsFiniteSet(S) /\ Cardinality(S) \in Nat
  BY StoreAssumption, FS_Subset, FS_CardinalityType
<1>2. Cardinality(1..Cardinality(S)) = Cardinality(S)
  BY <1>1, FS_Interval
<1>3. order \in Injection(1..Cardinality(S), S)
  BY DEF Injection, IsInjective
<1>4. order \in Surjection(1..Cardinality(S), S)
  BY <1>1, <1>2, <1>3, FS_Injection
<1> QED
  BY <1>4 DEF Surjection

LEMMA FirstRows ==
    ASSUME Typed, NEW e \in Events, NEW S \in SUBSET Endpoints, createForTenant(e, S)
    PROVE  /\ \A r \in DOMAIN outbox' :
                 r \in DOMAIN outbox \/ (outbox'[r].delivery[1] = e /\ outbox'[r].attempt = 1)
           /\ \A x \in S : \E r \in DOMAIN outbox' :
                 outbox'[r].delivery = <<e, x>> /\ outbox'[r].attempt = 1
<1>1. PICK order \in [1..Cardinality(S) -> S] :
        /\ \A i, j \in DOMAIN order : order[i] = order[j] => i = j
        /\ outbox' = outbox \o [i \in DOMAIN order |-> NewRow(<<e, order[i]>>, 1, TRUE)]
  BY DEF createForTenant
<1>2. Cardinality(S) \in Nat /\ DOMAIN order = 1..Cardinality(S)
  BY StoreAssumption, FS_Subset, FS_CardinalityType
<1> DEFINE rows == [i \in 1..Cardinality(S) |-> NewRow(<<e, order[i]>>, 1, TRUE)]
<1>3. \A i \in 1..Cardinality(S) : /\ rows[i] \in OutboxRow /\ rows[i].attempt = 1
                                   /\ rows[i].delivery = <<e, order[i]>>
  BY DEF NewRow, OutboxRow, Deliveries
<1>4. rows \in [1..Cardinality(S) -> OutboxRow]
  BY <1>3
<1>5. outbox' = outbox \o rows /\ outbox \in Seq(OutboxRow)
  BY <1>1, <1>2, TypedParts DEF StoreTypeOK
<1> HIDE DEF rows
<1>6. rows \in Seq(OutboxRow) /\ DOMAIN rows = 1..Cardinality(S)
  BY <1>2, <1>4
<1>7. /\ Len(outbox') = Len(outbox) + Len(rows) /\ outbox' \in Seq(OutboxRow)
      /\ \A i \in 1 .. Len(outbox) + Len(rows) :
            outbox'[i] = IF i <= Len(outbox) THEN outbox[i] ELSE rows[i - Len(outbox)]
  BY <1>5, <1>6, ConcatProperties
<1>8. /\ Len(rows) = Cardinality(S) /\ Len(outbox) \in Nat /\ DOMAIN outbox = 1..Len(outbox)
      /\ DOMAIN outbox' = 1..(Len(outbox) + Cardinality(S))
  BY <1>2, <1>5, <1>6, <1>7, LenProperties
<1>9. ASSUME NEW r \in DOMAIN outbox', r \notin DOMAIN outbox
      PROVE  outbox'[r].delivery[1] = e /\ outbox'[r].attempt = 1
  <2>1. r \in Nat /\ r > Len(outbox) /\ r <= Len(outbox) + Len(rows)
    BY <1>2, <1>8, <1>9
  <2>2. outbox'[r] = rows[r - Len(outbox)] /\ r - Len(outbox) \in 1..Cardinality(S)
    BY <1>2, <1>7, <1>8, <2>1
  <2> QED BY <1>3, <2>2
<1>10. ASSUME NEW x \in S
       PROVE  \E r \in DOMAIN outbox' : outbox'[r].delivery = <<e, x>> /\ outbox'[r].attempt = 1
  <2>1. PICK i \in 1..Cardinality(S) : order[i] = x
    BY <1>1, EveryoneInOrder
  <2>2. Len(outbox) + i \in DOMAIN outbox' /\ outbox'[Len(outbox) + i] = rows[i]
    BY <1>2, <1>7, <1>8
  <2> QED BY <1>3, <2>1, <2>2
<1> QED
  BY <1>9, <1>10

LEMMA AcceptsKind ==
    ASSUME Typed, NEW e \in Events, Ingest(e)
    PROVE  StepKind
<1>1. PICK S \in SUBSET Endpoints : createForTenant(e, S)
  BY DEF Ingest
<1>2. StoreStep /\ UNCHANGED <<worker, tx, active, budget, publisher>> /\ event[e] = "NONE"
  BY <1>1, CreateTyped DEF Ingest, dispatcherVars, createForTenant
<1>3. delivery' = [d \in Deliveries |-> IF d[1] = e /\ d[2] \in S
                                       THEN [delivery[d] EXCEPT !.status = "PENDING"]
                                       ELSE delivery[d]]
  BY <1>1 DEF createForTenant
<1>4. ASSUME NEW d \in Deliveries
      PROVE  \/ delivery'[d] = delivery[d]
             \/ /\ d[1] = e /\ delivery'[d].status = "PENDING"
                /\ delivery'[d].attempts = delivery[d].attempts
                /\ delivery'[d].resets = delivery[d].resets
                /\ delivery'[d].aged = delivery[d].aged
                /\ \E r \in DOMAIN outbox' : outbox'[r].delivery = d /\ outbox'[r].attempt = 1
  <2>1. CASE d[1] = e /\ d[2] \in S
    <3>1. \E r \in DOMAIN outbox' : outbox'[r].delivery = d /\ outbox'[r].attempt = 1
      <4>1. d = <<e, d[2]>>
        BY <2>1 DEF Deliveries
      <4> QED BY <1>1, <2>1, <4>1, FirstRows
    <3>2. delivery'[d] = [delivery[d] EXCEPT !.status = "PENDING"] /\ delivery[d] \in DeliveryRow
      BY <1>3, <2>1, TypedParts DEF StoreTypeOK
    <3> QED BY <2>1, <3>1, <3>2 DEF DeliveryRow
  <2>2. CASE ~(d[1] = e /\ d[2] \in S)
    BY <1>3, <2>2
  <2> QED BY <2>1, <2>2
<1>5. \A r \in DOMAIN outbox' :
        r \in DOMAIN outbox \/ (outbox'[r].delivery[1] = e /\ outbox'[r].attempt = 1)
  BY <1>1, FirstRows
<1>6. Accepts(e)
  BY <1>2, <1>4, <1>5 DEF Accepts
<1> QED
  BY <1>2, <1>6 DEF StepKind, AnyKind

LEMMA ResetsKind ==
    ASSUME Typed, NEW c \in Deliveries, ReplayReset(c)
    PROVE  StepKind
<1>1. /\ StoreStep /\ UNCHANGED <<worker, tx, active, budget, publisher>>
      /\ c \in replaying /\ replaying' = replaying \ {c}
  BY ResetTyped DEF ReplayReset, dispatcherVars, resetForReplay
<1>2. /\ delivery' = [delivery EXCEPT ![c] = [status |-> "PENDING", attempts |-> 0,
                                              resets |-> delivery[c].resets + 1, aged |-> FALSE]]
      /\ outbox' = Append(outbox, NewRow(c, 1, TRUE))
  BY DEF ReplayReset, resetForReplay, reschedule
<1>3. /\ WritesOnly(c) /\ delivery'[c].status = "PENDING" /\ delivery'[c].attempts = 0
      /\ delivery'[c].resets = delivery[c].resets + 1 /\ ~delivery'[c].aged
  BY <1>2, TypedParts DEF StoreTypeOK, WritesOnly
<1>4. NewRowOf(c, 1)
  BY <1>2, NewRowTyped, AppendedRow
<1>5. Resets(c)
  BY <1>1, <1>3, <1>4 DEF Resets
<1> QED
  BY <1>1, <1>5 DEF StepKind, AnyKind

LEMMA AgesKind ==
    ASSUME Typed, NEW c \in Deliveries, Age(c) \/ AgeHeld(c)
    PROVE  StepKind
<1>1. /\ age(c) /\ UNCHANGED <<worker, publisher>>
      /\ (~Held(c) /\ UNCHANGED budget) \/ Spend("slow")
  BY DEF Age, AgeHeld, dispatcherVars, Held
<1>2. StoreStep
  BY <1>1, AgeTyped
<1>3. Ages(c)
  BY <1>1, TypedParts DEF Ages, age, StoreTypeOK, DeliveryRow, NoRow, WritesOnly
<1> QED
  BY <1>2, <1>3 DEF StepKind, AnyKind

(* Every step of the engine is of one of the kinds.                            *)
LEMMA StepKinds ==
    ASSUME Typed, [Next]_vars
    PROVE  StepKind
<1>1. ASSUME StoreStep, NoRow, UNCHANGED <<delivery, tx, active, worker, publisher>>,
             UNCHANGED budget \/ \E kind \in FaultKinds : Spend(kind)
      PROVE  StepKind
  BY <1>1 DEF StepKind, AnyKind, Rests, FewerSnapshots
<1>2. CASE Api
  <2>1. CASE \E e \in Events : Ingest(e)
    BY <2>1, AcceptsKind
  <2>2. CASE \E d \in Deliveries : ReplayReset(d)
    BY <2>2, ResetsKind
  <2>3. CASE \E d \in Deliveries : ReplayCheck(d)
    BY <1>1, <2>3, UnchangedStore DEF ReplayCheck, storeVars, dispatcherVars, NoRow, FaultKinds
  <2>4. CASE \E p \in Endpoints : ToggleEndpoint(p)
    <3>1. StoreStep /\ Switches
      BY <2>4, SetActiveTyped DEF ToggleEndpoint, Switches, setActive, dispatcherVars, NoRow
    <3> QED BY <3>1 DEF StepKind, AnyKind
  <2> QED BY <1>2, <2>1, <2>2, <2>3, <2>4 DEF Api
<1>3. CASE Time
  <2>1. CASE RowDue /\ UNCHANGED <<queueVars, dispatcherVars, publisher, replaying, budget>>
    <3>1. PICK r \in DOMAIN outbox :
            outbox' = [outbox EXCEPT ![r].due = TRUE] /\ UNCHANGED <<delivery, event, tx, active>>
      BY <2>1 DEF RowDue
    <3>2. StoreStep /\ NoRow
      BY <3>1, RowUpdateTyped DEF NoRow
    <3> QED BY <1>1, <2>1, <3>1, <3>2 DEF dispatcherVars
  <2>2. CASE \E d \in Deliveries : Age(d) \/ AgeHeld(d)
    BY <2>2, AgesKind
  <2> QED BY <1>3, <2>1, <2>2 DEF Time
<1>4. CASE QueueFault
  <2>1. /\ UNCHANGED <<storeVars, dispatcherVars, publisher>>
        /\ UNCHANGED budget \/ \E kind \in FaultKinds : Spend(kind)
    BY <1>4 DEF QueueFault, Purge, LoseJob, StallOrphan, StallLive, FaultKinds
  <2> QED BY <1>1, <2>1, UnchangedStore DEF storeVars, dispatcherVars, NoRow
<1>5. CASE UNCHANGED vars
  BY <1>1, <1>5, UnchangedStore DEF vars, storeVars, dispatcherVars, NoRow
<1> QED
  BY <1>2, <1>3, <1>4, <1>5, WorkerKind, PublisherKind DEF Next

-----------------------------------------------------------------------------
(* The attempts of a delivery, kind by kind.                                   *)
LEMMA WorkerRecord ==
    ASSUME Typed, NEW w \in Workers
    PROVE  /\ worker \in [Workers -> [pc : WorkerPcs, job : Jobs]]
           /\ worker[w].pc \in WorkerPcs
  BY TypedParts DEF DispatcherTypeOK

LEMMA DeliveryRecord ==
    ASSUME Typed, NEW d \in Deliveries
    PROVE  /\ delivery[d].attempts \in Nat /\ delivery[d].resets \in Nat
           /\ delivery[d].aged \in BOOLEAN
           /\ delivery[d].status \in {"NONE"} \cup Unfinished \cup Terminal
  BY TypedParts DEF StoreTypeOK, DeliveryRow

LEMMA RowRecord ==
    ASSUME Typed, NEW r \in DOMAIN outbox
    PROVE  outbox[r].attempt \in Nat /\ outbox[r].delivery \in Deliveries
  BY TypedParts, RowsOK DEF StoreTypeOK, OutboxRow

(* A worker that keeps its job keeps what the job refers to.                   *)
LEMMA KeptJob ==
    ASSUME Typed, StoreStep, NEW w \in Workers, worker[w].pc # "idle",
           worker'[w].job = worker[w].job
    PROVE  /\ deliveryId(w)' = deliveryId(w)
           /\ expectedAttempt(w)' = expectedAttempt(w)
  BY JobTyped DEF StoreStep, Extends, deliveryId, expectedAttempt

LEMMA Moved ==
    ASSUME Typed, NEW w \in Workers, NEW pc, goto(w, pc)
    PROVE  /\ worker'[w].pc = pc
           /\ \A v \in Workers : worker'[v].job = worker[v].job
           /\ \A v \in Workers : v # w => worker'[v] = worker[v]
  BY WorkerRecord DEF goto

(* Where the other steps of a worker take it, and at what price.               *)
Keeps(w) == worker'[w].job = worker[w].job /\ worker[w].pc # "idle"

WorksTable(w) ==
    /\ \A v \in Workers : v # w => worker'[v] = worker[v]
    /\ \/ /\ UNCHANGED <<budget, tx>>
          /\ \/ worker[w].pc = "idle" /\ worker'[w].pc = "find"
             \/ worker[w].pc \in {"done", "error"} /\ worker'[w].pc = "idle"
             \/ Keeps(w) /\ worker[w].pc = "find" /\ worker'[w].pc \in {"done", "limit"}
             \/ /\ Keeps(w) /\ worker[w].pc = "find" /\ worker'[w].pc = "cancel"
                /\ ~active[deliveryId(w)[2]]
             \/ Keeps(w) /\ worker[w].pc = "limit" /\ worker'[w].pc = "claim"
             \/ Keeps(w) /\ worker[w].pc = "claim" /\ worker'[w].pc = "done"
             \/ Keeps(w) /\ worker[w].pc = "send" /\ worker'[w].pc \in {"succeed", "dead"}
             \/ /\ Keeps(w) /\ worker[w].pc = "send" /\ worker'[w].pc = "retry"
                /\ expectedAttempt(w) < MaxAttempts
       \/ /\ Spend("limit") /\ UNCHANGED tx
          /\ Keeps(w) /\ worker[w].pc = "limit" /\ worker'[w].pc = "delay"
       \/ BeginMark(w)
       \/ /\ Spend("crash") /\ rollback(w)
          /\ worker[w].pc # "idle" /\ worker'[w].pc = "idle"
       \/ /\ Spend("db") /\ rollback(w)
          /\ Keeps(w) /\ worker[w].pc \notin {"idle", "send", "done", "error"}
          /\ \/ worker'[w].pc \in {"error", "dead"}
             \/ worker'[w].pc = "retry" /\ expectedAttempt(w) < MaxAttempts
          /\ worker[w].pc # "succeed" => worker'[w].pc = "error"

LEMMA CatchLeads ==
    ASSUME Typed, NEW w \in Workers, worker[w].pc # "idle", NEW retryable \in BOOLEAN
    PROVE  \/ catchPc(w, retryable) = "dead"
           \/ catchPc(w, retryable) = "retry" /\ expectedAttempt(w) < MaxAttempts
  BY JobTyped, MaxAttemptsAssumption DEF catchPc

LEMMA WorksMoves ==
    ASSUME Typed, NEW w \in Workers, Works(w)
    PROVE  WorksTable(w)
<1> USE DEF at, storeVars
<1>1. worker \in [Workers -> [pc : WorkerPcs, job : Jobs]]
  BY WorkerRecord
<1>2. CASE TakeJob(w)
  BY <1>1, <1>2 DEF TakeJob, WorksTable
<1>3. CASE Find(w)
  <2>1. PICK pc \in {"done", "cancel", "limit"} :
          goto(w, pc) /\ (pc = "cancel" => ~active[deliveryId(w)[2]])
    BY <1>3 DEF Find
  <2> QED BY <1>3, <2>1, Moved DEF Find, WorksTable, Keeps
<1>4. CASE CheckRateLimit(w)
  BY <1>4, Moved DEF CheckRateLimit, WorksTable, Keeps
<1>5. CASE Send(w)
  <2>1. PICK pc \in {"succeed", "dead", "retry"} :
          goto(w, pc) /\ (pc = "retry" => expectedAttempt(w) < MaxAttempts)
    <3>1. CASE goto(w, "succeed")
      BY <3>1
    <3>2. CASE \E retryable \in BOOLEAN : goto(w, catchPc(w, retryable))
      BY <1>5, <3>2, CatchLeads DEF Send
    <3> QED BY <1>5, <3>1, <3>2 DEF Send
  <2> QED BY <1>5, <2>1, Moved DEF Send, WorksTable, Keeps
<1>6. CASE BeginMark(w)
  BY <1>6 DEF BeginMark, WorksTable
<1>7. CASE Finish(w)
  BY <1>1, <1>7 DEF Finish, WorksTable
<1>8. CASE CallThrows(w)
  <2>1. PICK pc : /\ goto(w, pc)
                  /\ pc \in {"error", "dead"} \/ (pc = "retry" /\ expectedAttempt(w) < MaxAttempts)
                  /\ worker[w].pc # "succeed" => pc = "error"
    BY <1>8, CatchLeads DEF CallThrows, afterThrow
  <2> QED BY <1>8, <2>1, Moved DEF CallThrows, WorksTable, Keeps
<1>9. CASE CrashWorker(w)
  BY <1>1, <1>9 DEF CrashWorker, WorksTable
<1>10. CASE worker[w].pc = "claim" /\ goto(w, "done") /\ UNCHANGED <<tx, active, budget>>
  BY <1>10, Moved DEF WorksTable, Keeps
<1> QED
  BY <1>2, <1>3, <1>4, <1>5, <1>6, <1>7, <1>8, <1>9, <1>10 DEF Works

(* A worker that records, postpones or schedules leaves, or is thrown back to  *)
(* another step of the same attempt.                                           *)
LEMMA AnswerMoves ==
    ASSUME Typed, NEW w \in Workers, worker[w].pc # "idle", NEW to, Answers(w, to)
    PROVE  /\ \A v \in Workers : v # w => worker'[v] = worker[v]
           /\ Keeps(w)
           /\ \/ worker'[w].pc = to /\ UNCHANGED budget
              \/ /\ Spend("db")
                 /\ \/ worker'[w].pc \in {"error", "dead"}
                    \/ worker'[w].pc = "retry" /\ expectedAttempt(w) < MaxAttempts
                 /\ worker[w].pc # "succeed" => worker'[w].pc = "error"
<1>1. CASE goto(w, to) /\ UNCHANGED budget
  BY <1>1, Moved DEF Keeps
<1>2. CASE goto(w, afterThrow(w)) /\ Spend("db")
  <2>1. PICK pc : /\ goto(w, pc)
                  /\ pc \in {"error", "dead"} \/ (pc = "retry" /\ expectedAttempt(w) < MaxAttempts)
                  /\ worker[w].pc # "succeed" => pc = "error"
    BY <1>2, CatchLeads DEF afterThrow, at
  <2> QED BY <1>2, <2>1, Moved DEF Keeps
<1> QED
  BY <1>1, <1>2 DEF Answers

-----------------------------------------------------------------------------
(* Nobody comes to hold a delivery but by a claim.                             *)
LEMMA OnlyClaimsHold ==
    ASSUME Typed, StepKind, NEW d \in Deliveries, \A w \in Workers : ~Begins(w, d)
    PROVE  NoMoreHolders(d)
<1>1. StoreStep
  BY DEF StepKind
<1>2. ASSUME UNCHANGED worker PROVE NoMoreHolders(d)
  BY <1>1, <1>2, HoldersSame
<1>3. ASSUME NEW w \in Workers, \A v \in Workers : v # w => worker'[v] = worker[v],
             worker'[w].pc \in HoldingPcs =>
                 Keeps(w) /\ (worker[w].pc \in HoldingPcs \/ deliveryId(w) # d)
      PROVE  NoMoreHolders(d)
  <2> SUFFICES ASSUME NEW v \in Workers, Holds(v, d)'
               PROVE  Holds(v, d) /\ expectedAttempt(v)' = expectedAttempt(v)
    BY DEF NoMoreHolders
  <2>1. worker'[v].pc \in HoldingPcs /\ deliveryId(v)' = d
    BY DEF Holds
  <2>2. worker[v].pc # "idle" /\ worker'[v].job = worker[v].job
    BY <1>3, <2>1 DEF Keeps, HoldingPcs
  <2>3. deliveryId(v) = d /\ expectedAttempt(v)' = expectedAttempt(v)
    BY <1>1, <2>1, <2>2, KeptJob
  <2>4. worker[v].pc \in HoldingPcs
    BY <1>3, <2>1, <2>3
  <2> QED BY <2>3, <2>4 DEF Holds
<1>4. ASSUME NEW w \in Workers, Works(w) PROVE NoMoreHolders(d)
  <2>1. WorksTable(w)
    BY <1>4, WorksMoves
  <2>2. worker'[w].pc \in HoldingPcs => Keeps(w) /\ worker[w].pc \in HoldingPcs
    <3>1. CASE BeginMark(w)
      BY <3>1 DEF BeginMark, MarkingPcs, HoldingPcs, Keeps
    <3>2. CASE ~BeginMark(w)
      BY <2>1, <3>2 DEF WorksTable, HoldingPcs
    <3> QED BY <3>1, <3>2
  <2> QED BY <1>3, <2>1, <2>2 DEF WorksTable
<1>5. ASSUME NEW w \in Workers, NEW c \in Deliveries, Begins(w, c) PROVE NoMoreHolders(d)
  <2>1. Answers(w, "send") /\ worker[w].pc = "claim" /\ deliveryId(w) # d
    BY <1>5 DEF Begins
  <2> QED BY <1>3, <2>1, AnswerMoves
<1>6. ASSUME NEW w \in Workers, NEW c \in Deliveries,
             Records(w, c) \/ Retries(w, c) \/ Delays(w, c)
      PROVE  NoMoreHolders(d)
  <2>1. Answers(w, "done") /\ worker[w].pc # "idle"
    BY <1>6 DEF Records, Retries, Delays, MarkingPcs
  <2>2. worker'[w].pc \in HoldingPcs => Keeps(w) /\ worker[w].pc \in HoldingPcs
    BY <2>1, AnswerMoves DEF HoldingPcs
  <2> QED BY <1>3, <2>1, <2>2, AnswerMoves
<1> QED
  BY <1>2, <1>4, <1>5, <1>6 DEF StepKind, AnyKind, Recovers, Resets, Ages, Accepts, Snaps, Switches, Rests

(* Only a claim and a replay change the number of attempts.                    *)
LEMMA OnlyClaimsCount ==
    ASSUME Typed, StepKind, NEW d \in Deliveries, \A w \in Workers : ~Begins(w, d)
    PROVE  \/ /\ delivery'[d].attempts = delivery[d].attempts
              /\ delivery'[d].resets = delivery[d].resets
           \/ delivery'[d].attempts = 0 /\ delivery'[d].resets = delivery[d].resets + 1
  BY DEF StepKind, AnyKind, Works, Begins, Records, Retries, Delays, Recovers, Resets, Ages, Accepts,
     Snaps, Switches, Rests, SetsStatus, WritesOnly

-----------------------------------------------------------------------------
(* AttemptOnce needs that no worker is ahead of its delivery: then the next    *)
(* claim is at a number that nobody has.                                       *)
OnceInv(d) ==
    NotReplayed(d) =>
        \A v \in Workers : Holds(v, d) =>
            /\ expectedAttempt(v) <= delivery[d].attempts
            /\ \A w \in Workers : Holds(w, d) /\ v # w => expectedAttempt(v) # expectedAttempt(w)

LEMMA InitOnce == Init => \A d \in Deliveries : OnceInv(d)
  BY DEF Init, DispatcherInit, OnceInv, Holds, HoldingPcs

LEMMA OnceStep ==
    ASSUME Typed, StepKind, NEW d \in Deliveries, OnceInv(d)
    PROVE  OnceInv(d)'
<1> SUFFICES ASSUME NotReplayed(d)', NEW v \in Workers, Holds(v, d)'
             PROVE  /\ expectedAttempt(v)' <= delivery'[d].attempts
                    /\ \A w \in Workers : Holds(w, d)' /\ v # w
                          => expectedAttempt(v)' # expectedAttempt(w)'
  BY DEF OnceInv
<1>1. delivery[d].attempts \in Nat /\ delivery[d].resets \in Nat
  BY DeliveryRecord
<1>2. CASE \A w \in Workers : ~Begins(w, d)
  <2>1. NotReplayed(d) /\ delivery'[d].attempts = delivery[d].attempts
    BY <1>1, <1>2, OnlyClaimsCount DEF NotReplayed
  <2>2. NoMoreHolders(d)
    BY <1>2, OnlyClaimsHold
  <2> QED BY <2>1, <2>2 DEF NoMoreHolders, OnceInv
<1>3. ASSUME NEW w \in Workers, Begins(w, d)
      PROVE  /\ expectedAttempt(v)' <= delivery'[d].attempts
             /\ \A u \in Workers : Holds(u, d)' /\ v # u
                   => expectedAttempt(v)' # expectedAttempt(u)'
  <2>1. /\ StoreStep /\ Answers(w, "send") /\ worker[w].pc = "claim" /\ NotReplayed(d)
        /\ expectedAttempt(w) = delivery[d].attempts + 1
        /\ delivery'[d].attempts = delivery[d].attempts + 1
    BY <1>3 DEF Begins, StepKind, NotReplayed
  <2>2. /\ \A u \in Workers : u # w => worker'[u] = worker[u]
        /\ worker'[w].job = worker[w].job
    BY <2>1, AnswerMoves DEF Keeps
  <2>3. expectedAttempt(w)' = delivery[d].attempts + 1
    BY <2>1, <2>2, KeptJob
  <2>4. \A u \in Workers : u # w /\ Holds(u, d)' =>
            /\ Holds(u, d) /\ expectedAttempt(u)' = expectedAttempt(u)
            /\ expectedAttempt(u) \in Nat
    <3> SUFFICES ASSUME NEW u \in Workers, u # w, Holds(u, d)'
                 PROVE  /\ Holds(u, d) /\ expectedAttempt(u)' = expectedAttempt(u)
                        /\ expectedAttempt(u) \in Nat
      OBVIOUS
    <3>1. worker[u].pc \in HoldingPcs /\ worker[u].pc # "idle" /\ deliveryId(u)' = d
      BY <2>2 DEF Holds, HoldingPcs
    <3> QED BY <2>1, <2>2, <3>1, KeptJob, JobTyped DEF Holds
  <2> QED BY <1>1, <2>1, <2>3, <2>4 DEF OnceInv
<1> QED
  BY <1>2, <1>3

(* AttemptOnce: however many workers recovery has given up on, no two workers  *)
(* ever share an attempt number of a delivery that is not replayed.            *)
THEOREM AttemptsUnique == Spec => []AttemptOnce
<1> DEFINE I == \A d \in Deliveries : OnceInv(d)
<1>1. Typed /\ I /\ [Next]_vars => I'
  BY StepKinds, OnceStep
<1>2. I => AttemptOnce
  BY DEF OnceInv, AttemptOnce
<1> HIDE DEF I
<1>3. Init => I
  BY InitOnce DEF I
<1> QED
  BY <1>1, <1>2, <1>3, AlwaysTyped, PTL DEF Spec

-----------------------------------------------------------------------------
(* What is spent stays spent.                                                  *)
LEMMA SpentStep ==
    ASSUME Typed, BudgetOK, UNCHANGED budget \/ \E kind \in FaultKinds : Spend(kind),
           NEW k \in FaultKinds
    PROVE  /\ Spent(k) \in Nat /\ Spent(k)' \in Nat /\ Spent(k) <= Spent(k)'
           /\ Spend(k) => Spent(k)' = Spent(k) + 1
<1>1. /\ budget \in [FaultKinds -> Nat] /\ Budget \in [FaultKinds -> Nat]
  BY BudgetAssumption DEF Typed, TypeOK, FaultTypeOK
<1>2. budget'[k] \in Nat /\ budget'[k] <= budget[k]
  BY <1>1 DEF Spend
<1>3. Spend(k) => budget'[k] = budget[k] - 1
  BY <1>1 DEF Spend
<1> QED
  BY <1>1, <1>2, <1>3 DEF BudgetOK, Spent

LEMMA KindSpends ==
    ASSUME Typed, StepKind
    PROVE  UNCHANGED budget \/ \E kind \in FaultKinds : Spend(kind)
<1>1. ASSUME NEW w \in Workers, Works(w)
      PROVE  UNCHANGED budget \/ \E kind \in FaultKinds : Spend(kind)
  BY <1>1, WorksMoves DEF WorksTable, BeginMark, FaultKinds
<1> QED
  BY <1>1 DEF StepKind, AnyKind, Begins, Records, Retries, Delays, Answers, Recovers, Resets, Ages,
     Accepts, Snaps, Switches, Rests, FaultKinds

LEMMA InitBudget == Init => BudgetOK
  BY BudgetAssumption DEF Init, FaultInit, BudgetOK

LEMMA BudgetKept ==
    ASSUME Typed, StepKind, BudgetOK
    PROVE  BudgetOK'
  BY KindSpends, BudgetStep

(* AttemptsBounded: the largest number ever asked for.  A claim asks for the   *)
(* number of a row; recovery asks for one more than the claim it takes back,   *)
(* so a claim whose worker is gone has to lie below the bound.                 *)
AttemptLimit == MaxAttempts + Spent("crash") + Spent("db") + Spent("slow")

AtWork(d) == \E w \in Workers : Holds(w, d) /\ expectedAttempt(w) = delivery[d].attempts

RowsBounded == \A r \in DOMAIN outbox : outbox[r].attempt <= AttemptLimit

ClaimsBounded ==
    \A d \in Deliveries :
        /\ delivery[d].attempts <= AttemptLimit
        /\ delivery[d].status = "PROCESSING" /\ (delivery[d].aged \/ ~AtWork(d))
              => delivery[d].attempts < AttemptLimit

SnapshotsBounded ==
    \A p \in Publishers : \A s \in publisher[p].stale : s.attempts < AttemptLimit

RetryAllowed ==
    \A w \in Workers : worker[w].pc = "retry" => expectedAttempt(w) < MaxAttempts

BoundInv == BudgetOK /\ RowsBounded /\ ClaimsBounded /\ SnapshotsBounded /\ RetryAllowed

LEMMA InitBound == Init => BoundInv
<1> SUFFICES ASSUME Init PROVE BoundInv
  OBVIOUS
<1>1. AttemptLimit = MaxAttempts
  BY BudgetAssumption, MaxAttemptsAssumption DEF Init, FaultInit, AttemptLimit, Spent, FaultKinds
<1> QED
  BY <1>1, InitBudget, MaxAttemptsAssumption
  DEF Init, StoreInit, DispatcherInit, PublisherInit, Idle, BoundInv, RowsBounded, ClaimsBounded,
      SnapshotsBounded, RetryAllowed

LEMMA LimitStep ==
    ASSUME Typed, StepKind, BudgetOK
    PROVE  /\ AttemptLimit \in Nat /\ AttemptLimit' \in Nat
           /\ MaxAttempts <= AttemptLimit /\ MaxAttempts <= AttemptLimit'
           /\ AttemptLimit <= AttemptLimit'
           /\ Spend("crash") \/ Spend("db") \/ Spend("slow") => AttemptLimit < AttemptLimit'
<1> DEFINE S(k) == Spent(k) \in Nat /\ Spent(k)' \in Nat /\ Spent(k) <= Spent(k)'
<1>1. \A k \in {"crash", "db", "slow"} : S(k) /\ (Spend(k) => Spent(k)' = Spent(k) + 1)
  BY KindSpends, SpentStep DEF FaultKinds
<1>2. /\ S("crash") /\ (Spend("crash") => Spent("crash")' = Spent("crash") + 1)
      /\ S("db") /\ (Spend("db") => Spent("db")' = Spent("db") + 1)
      /\ S("slow") /\ (Spend("slow") => Spent("slow")' = Spent("slow") + 1)
  BY <1>1
<1>3. ASSUME NEW a \in Nat, NEW b \in Nat, NEW c \in Nat,
             NEW x \in Nat, NEW y \in Nat, NEW z \in Nat, a <= x, b <= y, c <= z
      PROVE  /\ MaxAttempts + a + b + c \in Nat
             /\ MaxAttempts + x + y + z \in Nat
             /\ MaxAttempts <= MaxAttempts + a + b + c
             /\ MaxAttempts <= MaxAttempts + x + y + z
             /\ MaxAttempts + a + b + c <= MaxAttempts + x + y + z
             /\ x = a + 1 \/ y = b + 1 \/ z = c + 1
                   => MaxAttempts + a + b + c < MaxAttempts + x + y + z
  BY <1>3, MaxAttemptsAssumption
<1>4. AttemptLimit = MaxAttempts + Spent("crash") + Spent("db") + Spent("slow")
  BY DEF AttemptLimit
<1>5. AttemptLimit' = MaxAttempts + Spent("crash")' + Spent("db")' + Spent("slow")'
  BY DEF AttemptLimit
<1> HIDE DEF AttemptLimit, Spent, Spend
<1> QED
  BY <1>2, <1>3, <1>4, <1>5, ZenonT(40)

LEMMA RetryStep ==
    ASSUME Typed, StepKind, RetryAllowed
    PROVE  RetryAllowed'
<1> SUFFICES ASSUME NEW v \in Workers, worker'[v].pc = "retry"
             PROVE  expectedAttempt(v)' < MaxAttempts
  BY DEF RetryAllowed
<1>1. StoreStep
  BY DEF StepKind
<1>2. ASSUME worker'[v] = worker[v] PROVE expectedAttempt(v)' < MaxAttempts
  BY <1>1, <1>2, KeptJob DEF RetryAllowed
<1>3. ASSUME Keeps(v), expectedAttempt(v) < MaxAttempts PROVE expectedAttempt(v)' < MaxAttempts
  BY <1>1, <1>3, KeptJob DEF Keeps
<1>4. ASSUME NEW w \in Workers, Works(w) PROVE expectedAttempt(v)' < MaxAttempts
  <2>1. WorksTable(w)
    BY <1>4, WorksMoves
  <2>2. CASE BeginMark(w)
    BY <1>2, <2>2 DEF BeginMark
  <2> QED BY <1>2, <1>3, <2>1, <2>2 DEF WorksTable
<1>5. ASSUME NEW w \in Workers, NEW to \in {"send", "done"}, Answers(w, to),
             worker[w].pc # "idle"
      PROVE  expectedAttempt(v)' < MaxAttempts
  BY <1>2, <1>3, <1>5, AnswerMoves
<1> QED
  BY <1>2, <1>4, <1>5 DEF StepKind, AnyKind, Begins, Records, Retries, Delays, MarkingPcs, Recovers,
     Resets, Ages, Accepts, Snaps, Switches, Rests

(* Whoever is at work on d stays at it, records its outcome, or has failed.    *)
LEMMA AtWorkStep ==
    ASSUME Typed, StepKind, NEW d \in Deliveries, AtWork(d),
           delivery'[d].attempts = delivery[d].attempts,
           \A w \in Workers : ~Records(w, d) /\ ~Retries(w, d)
    PROVE  AtWork(d)' \/ Spend("crash") \/ Spend("db")
<1>1. StoreStep
  BY DEF StepKind
<1>2. PICK v \in Workers : Holds(v, d) /\ expectedAttempt(v) = delivery[d].attempts
  BY DEF AtWork
<1>3. ASSUME worker'[v].job = worker[v].job, worker'[v].pc \in HoldingPcs PROVE AtWork(d)'
  <2>1. worker[v].pc # "idle" /\ deliveryId(v) = d
    BY <1>2 DEF Holds, HoldingPcs
  <2> QED BY <1>1, <1>2, <1>3, <2>1, KeptJob DEF AtWork, Holds
<1>4. worker[v].pc \in HoldingPcs /\ deliveryId(v) = d
  BY <1>2 DEF Holds
<1>5. CASE worker'[v] = worker[v]
  BY <1>3, <1>4, <1>5
<1>6. ASSUME NEW w \in Workers, Works(w) PROVE AtWork(d)' \/ Spend("crash") \/ Spend("db")
  <2>1. WorksTable(w)
    BY <1>6, WorksMoves
  <2>2. CASE BeginMark(w)
    BY <1>5, <2>2 DEF BeginMark
  <2>3. CASE v = w /\ ~BeginMark(w)
    BY <1>3, <1>4, <2>1, <2>3 DEF WorksTable, Keeps, HoldingPcs
  <2> QED BY <1>5, <2>1, <2>2, <2>3 DEF WorksTable
<1>7. ASSUME NEW w \in Workers, NEW c \in Deliveries,
             Begins(w, c) \/ Records(w, c) \/ Retries(w, c) \/ Delays(w, c)
      PROVE  AtWork(d)' \/ Spend("crash") \/ Spend("db")
  <2>1. v # w
    BY <1>4, <1>7 DEF Begins, Records, Retries, Delays, HoldingPcs
  <2>2. worker[w].pc # "idle" /\ \E to : Answers(w, to)
    BY <1>7 DEF Begins, Records, Retries, Delays, MarkingPcs
  <2> QED BY <1>5, <2>1, <2>2, AnswerMoves
<1> QED
  BY <1>5, <1>6, <1>7 DEF StepKind, AnyKind, Recovers, Resets, Ages, Accepts, Snaps, Switches, Rests

(* A delivery stays PROCESSING only by being left alone.                       *)
LEMMA OthersLeave ==
    ASSUME Typed, StepKind, NEW d \in Deliveries,
           \A w \in Workers : ~Begins(w, d), ~Resets(d), ~Ages(d)
    PROVE  /\ delivery'[d].attempts = delivery[d].attempts
           /\ \/ delivery'[d].status # "PROCESSING"
              \/ delivery'[d] = delivery[d] /\ \A w \in Workers : ~Records(w, d) /\ ~Retries(w, d)
<1>1. ASSUME NEW w \in Workers, Records(w, d)
      PROVE  \/ SetsStatus(d, "SUCCESS") \/ SetsStatus(d, "DLQ") \/ SetsStatus(d, "CANCELLED")
  <2>1. PICK t \in tx : SetsStatus(d, t.status)
    BY <1>1 DEF Records
  <2>2. t.status \in {"SUCCESS", "DLQ", "CANCELLED"}
    BY TypedParts DEF StoreTypeOK, OpenTx, Terminal
  <2> QED BY <2>1, <2>2
<1>2. ASSUME NEW w \in Workers, NEW c \in Deliveries, Records(w, c), c # d
      PROVE  delivery'[d] = delivery[d]
  BY <1>2 DEF Records, SetsStatus, WritesOnly
<1> QED
  BY <1>1, <1>2 DEF StepKind, AnyKind, Works, Begins, Retries, Delays, Recovers, Resets, Ages,
     Accepts, Snaps, Switches, Rests, SetsStatus, WritesOnly

LEMMA RowsBoundedStep ==
    ASSUME Typed, StepKind, BoundInv
    PROVE  RowsBounded'
<1> DEFINE L == AttemptLimit
           M == AttemptLimit'
<1>1. L \in Nat /\ M \in Nat /\ MaxAttempts <= L /\ MaxAttempts <= M /\ L <= M
  BY LimitStep DEF BoundInv
<1> SUFFICES ASSUME NEW r \in DOMAIN outbox' PROVE outbox'[r].attempt <= M
  BY DEF RowsBounded
<1>2. CASE r \in DOMAIN outbox
  <2>1. outbox'[r].attempt = outbox[r].attempt
    BY <1>2 DEF StepKind, StoreStep, Extends
  <2>2. outbox[r].attempt <= L /\ outbox[r].attempt \in Nat
    BY <1>2, RowRecord DEF BoundInv, RowsBounded
  <2> HIDE DEF L, M
  <2> QED BY <1>1, <2>1, <2>2
<1>3. ASSUME r \notin DOMAIN outbox PROVE outbox'[r].attempt \in Nat /\ outbox'[r].attempt <= L
  <2>1. ASSUME NEW w \in Workers, NEW c \in Deliveries, Retries(w, c)
        PROVE  outbox'[r].attempt \in Nat /\ outbox'[r].attempt <= L
    <3>1. outbox'[r].attempt = expectedAttempt(w) + 1 /\ worker[w].pc = "retry"
      BY <1>3, <2>1 DEF Retries, NewRowOf
    <3>2. expectedAttempt(w) < MaxAttempts /\ expectedAttempt(w) \in Nat
      BY <3>1, JobTyped DEF BoundInv, RetryAllowed
    <3> HIDE DEF L, M
    <3> QED BY <1>1, <3>1, <3>2, MaxAttemptsAssumption
  <2>2. ASSUME NEW w \in Workers, NEW c \in Deliveries, Delays(w, c)
        PROVE  outbox'[r].attempt \in Nat /\ outbox'[r].attempt <= L
    <3>1. outbox'[r].attempt = expectedAttempt(w) /\ worker[w].pc = "delay"
      BY <1>3, <2>2 DEF Delays, NewRowOf
    <3> QED BY <3>1, JobTyped DEF BoundInv, RowsBounded, expectedAttempt
  <2>3. ASSUME NEW c \in Deliveries, Recovers(c)
        PROVE  outbox'[r].attempt \in Nat /\ outbox'[r].attempt <= L
    <3>1. /\ outbox'[r].attempt = delivery[c].attempts + 1
          /\ delivery[c].attempts < L
      BY <1>3, <2>3 DEF Recovers, NewRowOf, BoundInv, SnapshotsBounded
    <3>2. delivery[c].attempts \in Nat
      BY DeliveryRecord
    <3> HIDE DEF L, M
    <3> QED BY <1>1, <3>1, <3>2
  <2>4. CASE (\E c \in Deliveries : Resets(c)) \/ (\E e \in Events : Accepts(e))
    <3>1. outbox'[r].attempt = 1
      BY <1>3, <2>4 DEF Resets, NewRowOf, Accepts
    <3> HIDE DEF L, M
    <3> QED BY <1>1, <3>1, MaxAttemptsAssumption
  <2>5. ~NoRow
    BY <1>3 DEF NoRow
  <2> QED
    BY <2>1, <2>2, <2>3, <2>4, <2>5
    DEF StepKind, AnyKind, Works, Begins, Records, Ages, Snaps, Switches, Rests
<1>4. CASE r \notin DOMAIN outbox
  <2> HIDE DEF L, M
  <2> QED BY <1>1, <1>3, <1>4
<1> QED
  BY <1>2, <1>4

LEMMA SnapshotsBoundedStep ==
    ASSUME Typed, StepKind, BoundInv
    PROVE  SnapshotsBounded'
<1> DEFINE L == AttemptLimit
           M == AttemptLimit'
<1>1. L \in Nat /\ M \in Nat /\ L <= M
  BY LimitStep DEF BoundInv
<1> SUFFICES ASSUME NEW p \in Publishers, NEW s \in publisher'[p].stale
             PROVE  s.attempts \in Nat /\ s.attempts < L
  <2>1. \A n \in Nat : n < L => n < M
    <3> HIDE DEF L, M
    <3> QED BY <1>1
  <2> QED BY <2>1 DEF SnapshotsBounded
<1>2. CASE s \in publisher[p].stale
  BY <1>2, PublisherRecord DEF BoundInv, SnapshotsBounded, Snapshots
<1>3. ASSUME NEW q \in Publishers, Snaps(q), s \notin publisher[p].stale
      PROVE  s.attempts \in Nat /\ s.attempts < L
  <2>1. PICK T \in anyOf(StaleDeliveries) :
          publisher' = [publisher EXCEPT ![q].pc = "stale",
              ![q].stale = {[delivery |-> d, resets |-> delivery[d].resets,
                             attempts |-> delivery[d].attempts] : d \in T}]
    BY <1>3 DEF Snaps, BeginMaintenance
  <2>2. \A d \in T : d \in Deliveries /\ delivery[d].status = "PROCESSING" /\ delivery[d].aged
    BY DEF anyOf, StaleDeliveries
  <2>3. PICK d \in T : s.attempts = delivery[d].attempts
    BY <1>3, <2>1, PublisherRecord
  <2> QED BY <2>2, <2>3, DeliveryRecord DEF BoundInv, ClaimsBounded
<1>4. ASSUME FewerSnapshots \/ UNCHANGED publisher PROVE s \in publisher[p].stale
  BY <1>4 DEF FewerSnapshots
<1> QED
  BY <1>2, <1>3, <1>4 DEF StepKind, AnyKind, Works, Begins, Records, Retries, Delays, Recovers,
     Resets, Ages, Accepts, Switches, Rests

LEMMA ClaimsBoundedStep ==
    ASSUME Typed, StepKind, BoundInv
    PROVE  ClaimsBounded'
<1> DEFINE L == AttemptLimit
           M == AttemptLimit'
<1>1. /\ L \in Nat /\ M \in Nat /\ L <= M
      /\ Spend("crash") \/ Spend("db") \/ Spend("slow") => L < M
  BY LimitStep DEF BoundInv
<1> SUFFICES ASSUME NEW d \in Deliveries
             PROVE  /\ delivery'[d].attempts <= M
                    /\ delivery'[d].status = "PROCESSING" /\ (delivery'[d].aged \/ ~AtWork(d)')
                          => delivery'[d].attempts < M
  BY DEF ClaimsBounded
<1>2. /\ delivery[d].attempts \in Nat /\ delivery[d].attempts <= L
      /\ delivery[d].status = "PROCESSING" /\ (delivery[d].aged \/ ~AtWork(d))
            => delivery[d].attempts < L
  BY DeliveryRecord DEF BoundInv, ClaimsBounded
<1>3. ASSUME NEW w \in Workers, Begins(w, d)
      PROVE  /\ delivery'[d].attempts <= L
             /\ delivery'[d].aged \/ ~AtWork(d)' => L < M
  <2>1. /\ worker[w].pc = "claim" /\ Answers(w, "send") /\ deliveryId(w) = d
        /\ delivery'[d].attempts = expectedAttempt(w) /\ ~delivery'[d].aged
    BY <1>3 DEF Begins
  <2>2. expectedAttempt(w) <= L
    BY <2>1, JobTyped DEF BoundInv, RowsBounded, expectedAttempt
  <2>3. CASE worker'[w].pc = "send"
    <3>1. Holds(w, d)' /\ expectedAttempt(w)' = delivery'[d].attempts
      BY <2>1, <2>3, AnswerMoves, KeptJob DEF Keeps, StepKind, Holds, HoldingPcs
    <3> QED BY <2>1, <2>2, <3>1 DEF AtWork
  <2>4. CASE Spend("db")
    BY <1>1, <2>1, <2>2, <2>4
  <2> QED BY <2>1, <2>3, <2>4, AnswerMoves
<1>4. ASSUME Resets(d) PROVE delivery'[d].attempts = 0 /\ delivery'[d].status # "PROCESSING"
  BY <1>4 DEF Resets
<1>5. ASSUME Ages(d)
      PROVE  /\ delivery'[d].attempts = delivery[d].attempts
             /\ delivery[d].attempts < L \/ L < M
  <2>1. /\ delivery[d].status = "PROCESSING" /\ delivery'[d].attempts = delivery[d].attempts
        /\ ~Held(d) \/ Spend("slow")
    BY <1>5 DEF Ages
  <2>2. ~Held(d) => ~AtWork(d)
    BY DEF Held, AtWork
  <2> QED BY <1>1, <1>2, <2>1, <2>2
<1>6. ASSUME \A w \in Workers : ~Begins(w, d), ~Resets(d), ~Ages(d)
      PROVE  /\ delivery'[d].attempts = delivery[d].attempts
             /\ \/ delivery'[d].status # "PROCESSING"
                \/ delivery'[d] = delivery[d] /\ \A w \in Workers : ~Records(w, d) /\ ~Retries(w, d)
  BY <1>6, OthersLeave
<1>7. CASE (\A w \in Workers : ~Begins(w, d)) /\ ~Resets(d) /\ ~Ages(d)
  <2>1. CASE delivery'[d].status # "PROCESSING"
    <3>1. delivery'[d].attempts = delivery[d].attempts
      BY <1>6, <1>7
    <3> HIDE DEF L, M
    <3> QED BY <1>1, <1>2, <2>1, <3>1
  <2>2. CASE delivery'[d] = delivery[d] /\ \A w \in Workers : ~Records(w, d) /\ ~Retries(w, d)
    <3>1. AtWork(d) => AtWork(d)' \/ L < M
      BY <1>1, <2>2, AtWorkStep
    <3> HIDE DEF L, M
    <3> QED BY <1>1, <1>2, <2>2, <3>1
  <2> QED BY <1>6, <1>7, <2>1, <2>2
<1>8. CASE \E w \in Workers : Begins(w, d)
  <2>1. delivery'[d].attempts <= L /\ (delivery'[d].aged \/ ~AtWork(d)' => L < M)
    BY <1>3, <1>8
  <2>2. delivery'[d].attempts \in Nat
    BY <1>2, <1>8 DEF Begins
  <2> HIDE DEF L, M
  <2> QED BY <1>1, <2>1, <2>2
<1>9. CASE Resets(d)
  <2>1. delivery'[d].attempts = 0 /\ delivery'[d].status # "PROCESSING"
    BY <1>4, <1>9
  <2> HIDE DEF L, M
  <2> QED BY <1>1, <2>1
<1>10. CASE Ages(d)
  <2>1. delivery'[d].attempts = delivery[d].attempts /\ (delivery[d].attempts < L \/ L < M)
    BY <1>5, <1>10
  <2> HIDE DEF L, M
  <2> QED BY <1>1, <1>2, <2>1
<1> QED
  BY <1>7, <1>8, <1>9, <1>10

(* AttemptsBounded: recovery numbers attempts without regard to maxAttempts,   *)
(* yet each attempt beyond it is paid for by a worker that died, threw or was  *)
(* overtaken, whatever else is lost, duplicated or replayed.                   *)
THEOREM AttemptsLimited == Spec => []AttemptsBounded
<1>1. Typed /\ BoundInv /\ [Next]_vars => BoundInv'
  BY StepKinds, BudgetKept, RowsBoundedStep, SnapshotsBoundedStep, ClaimsBoundedStep, RetryStep
  DEF BoundInv
<1>2. BoundInv => AttemptsBounded
  BY DEF BoundInv, ClaimsBounded, AttemptLimit, AttemptsBounded
<1> QED
  BY <1>1, <1>2, InitBound, AlwaysTyped, PTL DEF Spec

-----------------------------------------------------------------------------
(* NextAttemptScheduled: a row for the next attempt comes with whatever makes  *)
(* a delivery wait.  A retry numbers its row after the job, not the delivery:  *)
(* that these agree is what SenderOK says of a worker that holds it.           *)
Scheduled(d) ==
    \E r \in DOMAIN outbox : /\ outbox[r].delivery = d
                             /\ outbox[r].attempt = delivery[d].attempts + 1

NeverRefused == Spent("limit") = 0 => \A w \in Workers : worker[w].pc # "delay"

SchedInv(d) ==
    /\ delivery[d].status = "NONE" => delivery[d].attempts = 0
    /\ /\ Clean(d) /\ Spent("limit") = 0
       /\ delivery[d].status \in {"PENDING", "FAILED"}
       => Scheduled(d)

SchedOK == NeverRefused /\ \A d \in Deliveries : SchedInv(d)

LEMMA InitScheduled == Init => SchedOK
  BY DEF Init, StoreInit, DispatcherInit, SchedOK, NeverRefused, SchedInv

LEMMA RefusedStep ==
    ASSUME Typed, BudgetOK, StepKind, NeverRefused
    PROVE  NeverRefused'
<1> SUFFICES ASSUME Spent("limit")' = 0, NEW v \in Workers
             PROVE  worker'[v].pc # "delay"
  BY DEF NeverRefused
<1>1. /\ Spent("limit") = 0 /\ ~Spend("limit")
  BY KindSpends, SpentStep DEF FaultKinds
<1>2. worker[v].pc # "delay"
  BY <1>1 DEF NeverRefused
<1>3. ASSUME NEW w \in Workers, Works(w) PROVE worker'[v].pc # "delay"
  BY <1>1, <1>2, <1>3, WorksMoves DEF WorksTable, BeginMark
<1>4. ASSUME NEW w \in Workers, NEW to \in {"send", "done"}, Answers(w, to),
             worker[w].pc # "idle"
      PROVE  worker'[v].pc # "delay"
  BY <1>2, <1>4, AnswerMoves
<1> QED
  BY <1>2, <1>3, <1>4 DEF StepKind, AnyKind, Begins, Records, Retries, Delays, MarkingPcs, Recovers,
     Resets, Ages, Accepts, Snaps, Switches, Rests

LEMMA RowsPersist ==
    ASSUME Typed, StepKind, NEW d \in Deliveries, Scheduled(d),
           delivery'[d].attempts = delivery[d].attempts
    PROVE  Scheduled(d)'
  BY DEF StepKind, StoreStep, Extends, Scheduled

LEMMA SchedStep ==
    ASSUME Typed, SenderOK, NeverRefused, StepKind, NEW d \in Deliveries, SchedInv(d)
    PROVE  SchedInv(d)'
<1>1. delivery[d].attempts \in Nat /\ delivery[d].resets \in Nat
  BY DeliveryRecord
<1>2. ASSUME delivery'[d].status = "NONE" PROVE delivery'[d].attempts = 0
  <2>1. ASSUME NEW w \in Workers, NEW c \in Deliveries, Records(w, c) PROVE delivery'[d] = delivery[d]
    <3>1. PICK t \in tx : SetsStatus(c, t.status)
      BY <2>1 DEF Records
    <3>2. t.status # "NONE"
      BY TypedParts DEF StoreTypeOK, OpenTx, Terminal
    <3> QED BY <1>2, <3>1, <3>2 DEF SetsStatus, WritesOnly
  <2>2. delivery'[d] = delivery[d]
    BY <1>2, <2>1 DEF StepKind, AnyKind, Works, Begins, Retries, Delays, Recovers, Resets, Ages,
       Accepts, Snaps, Switches, Rests, SetsStatus, WritesOnly
  <2> QED BY <1>2, <2>2 DEF SchedInv
<1>3. ASSUME Clean(d)', Spent("limit")' = 0, delivery'[d].status \in {"PENDING", "FAILED"}
      PROVE  Scheduled(d)'
  <2>1. Clean(d) /\ Spent("limit") = 0
    <3>1. BudgetOK /\ Spent("limit") = 0 /\ Spent("slow") = 0
      BY <1>3, KindSpends, SpentStep DEF FaultKinds, SenderOK, Clean
    <3>2. delivery[d].resets = 0
      <4>1. CASE \E w \in Workers : Begins(w, d)
        BY <1>3, <4>1 DEF Begins, Clean, NotReplayed
      <4> QED BY <1>1, <1>3, <4>1, OnlyClaimsCount DEF Clean, NotReplayed
    <3> QED BY <3>1, <3>2 DEF Clean, NotReplayed
  <2>2. CASE delivery'[d] = delivery[d]
    BY <1>3, <2>1, <2>2, RowsPersist DEF SchedInv
  <2>3. ASSUME NEW w \in Workers, Retries(w, d) PROVE Scheduled(d)'
    <3>1. Holds(w, d)
      BY <2>3 DEF Retries, Holds, HoldingPcs
    <3>2. expectedAttempt(w) = delivery[d].attempts
      BY <2>1, <3>1 DEF SenderOK, SenderInv, HolderCurrent
    <3> QED BY <2>3, <3>2 DEF Retries, NewRowOf, SetsStatus, Scheduled
  <2>4. ASSUME Recovers(d) PROVE Scheduled(d)'
    BY <2>4 DEF Recovers, NewRowOf, SetsStatus, Scheduled
  <2>5. ASSUME NEW e \in Events, Accepts(e), delivery'[d] # delivery[d] PROVE Scheduled(d)'
    <3>1. delivery[d].status = "NONE"
      BY <2>5 DEF Accepts, SenderOK, Unborn
    <3>2. delivery'[d].attempts = 0
      BY <2>5, <3>1 DEF Accepts, SchedInv
    <3> QED BY <2>5, <3>2 DEF Accepts, Scheduled
  <2>6. \A w \in Workers : ~Begins(w, d) /\ ~Delays(w, d)
    BY <1>3, <2>1 DEF Begins, Delays, NeverRefused
  <2>7. ~Resets(d) /\ ~Ages(d)
    BY <1>1, <1>3 DEF Resets, Ages, Clean, NotReplayed
  <2>8. ASSUME NEW w \in Workers, Records(w, d) PROVE FALSE
    <3>1. PICK t \in tx : SetsStatus(d, t.status)
      BY <2>8 DEF Records
    <3> QED BY <1>3, <3>1, TypedParts DEF StoreTypeOK, OpenTx, Terminal, SetsStatus
  <2> QED
    BY <2>2, <2>3, <2>4, <2>5, <2>6, <2>7, <2>8, ZenonT(40) DEF StepKind, AnyKind, Works, Begins, Records, Retries,
       Delays, Recovers, Resets, Ages, Accepts, Snaps, Switches, Rests, SetsStatus, WritesOnly
<1> QED
  BY <1>2, <1>3 DEF SchedInv

LEMMA AlwaysScheduled == Spec => []SenderOK /\ []SchedOK
<1>1. Typed /\ SenderOK /\ SchedOK /\ [Next]_vars => SchedOK'
  BY StepKinds, RefusedStep, SchedStep DEF SenderOK, SchedOK
<1>2. Spec => []SenderOK
  BY InitSender, NextSender, AlwaysTyped, PTL DEF Spec
<1> QED
  BY <1>1, <1>2, InitScheduled, AlwaysTyped, PTL DEF Spec

(* NextAttemptScheduled: no interleaving of workers, recovery and publishers,  *)
(* and no crash or failed call, leaves a delivery waiting for an attempt that  *)
(* no row asks for.                                                            *)
THEOREM AttemptsScheduled == Spec => []NextAttemptScheduled
<1>1. SchedOK => NextAttemptScheduled
  BY DEF SchedOK, SchedInv, Scheduled, Clean, NextAttemptScheduled
<1> QED
  BY <1>1, AlwaysScheduled, PTL

-----------------------------------------------------------------------------
(* AckedOnce is a matter of bookkeeping.  An acceptance comes from a worker    *)
(* that may still send or schedule another attempt, such a worker from a       *)
(* delivery that may be claimed, and that from the outcome of one of them, or  *)
(* from a replay: what has happened and may happen does not grow unpaid.       *)
Live(d) == {w \in Workers : worker[w].pc \in {"send", "retry", "dead"} /\ deliveryId(w) = d}

Abandoned(d) ==
    delivery[d].status = "PROCESSING" /\ (delivery[d].aged \/ ~AtWork(d))

Open(d) == delivery[d].status \in {"NONE", "PENDING", "FAILED"} \/ Abandoned(d)

Chances(d) == acks[d] + Cardinality(Live(d)) + (IF Open(d) THEN 1 ELSE 0)
                      + (IF d \in replaying THEN 1 ELSE 0)

Paid == 1 + Spent("crash") + Spent("db") + Spent("slow") + Spent("replay")

AckInv(d) == IsFiniteSet(Live(d)) /\ (Spent("limit") = 0 => Chances(d) <= Paid)

(* What recovery has read of a delivery is old, or has been overtaken.         *)
SnapshotOld(s) ==
    LET row == delivery[s.delivery]
    IN  \/ s.resets < row.resets
        \/ s.resets = row.resets /\ s.attempts < row.attempts
        \/ s.resets = row.resets /\ s.attempts = row.attempts /\ row.aged

SnapshotsOld == \A p \in Publishers : \A s \in publisher[p].stale : SnapshotOld(s)

LEMMA InitAcked == Init => SnapshotsOld /\ \A d \in Deliveries : AckInv(d)
<1> SUFFICES ASSUME Init PROVE SnapshotsOld /\ \A d \in Deliveries : AckInv(d)
  OBVIOUS
<1>1. SnapshotsOld
  BY DEF Init, PublisherInit, Idle, SnapshotsOld
<1>2. ASSUME NEW d \in Deliveries PROVE AckInv(d)
  <2>1. Live(d) = {}
    BY DEF Init, DispatcherInit, Live
  <2>2. IsFiniteSet(Live(d)) /\ Cardinality(Live(d)) = 0
    BY <2>1, FS_EmptySet
  <2>3. acks[d] = 0 /\ d \notin replaying
    BY DEF Init, DispatcherInit
  <2>4. Paid = 1
    BY BudgetAssumption DEF Init, FaultInit, Paid, Spent, FaultKinds
  <2> QED BY <2>2, <2>3, <2>4 DEF AckInv, Chances
<1> QED
  BY <1>1, <1>2

LEMMA SnapshotOldStep ==
    ASSUME Typed, StepKind, NEW s \in Snapshots, SnapshotOld(s)
    PROVE  SnapshotOld(s)'
<1> DEFINE d == s.delivery
<1>1. /\ d \in Deliveries /\ s.attempts \in Nat /\ s.resets \in Nat
      /\ delivery[d].attempts \in Nat /\ delivery[d].resets \in Nat
  BY DeliveryRecord DEF Snapshots
<1>2. CASE \E w \in Workers : Begins(w, d)
  <2>1. /\ delivery'[d].attempts = delivery[d].attempts + 1
        /\ delivery'[d].resets = delivery[d].resets
    BY <1>2 DEF Begins
  <2> QED BY <1>1, <2>1 DEF SnapshotOld
<1>3. CASE Resets(d)
  <2>1. delivery'[d].resets = delivery[d].resets + 1
    BY <1>3 DEF Resets
  <2> QED BY <1>1, <2>1 DEF SnapshotOld
<1>4. CASE (\A w \in Workers : ~Begins(w, d)) /\ ~Resets(d)
  <2>1. /\ delivery'[d].attempts = delivery[d].attempts
        /\ delivery'[d].resets = delivery[d].resets
        /\ delivery[d].aged => delivery'[d].aged
    BY <1>1, <1>4, ZenonT(40) DEF StepKind, AnyKind, Works, Begins, Records, Retries, Delays, Recovers, Resets,
       Ages, Accepts, Snaps, Switches, Rests, SetsStatus, WritesOnly
  <2> QED BY <1>1, <2>1 DEF SnapshotOld
<1> QED
  BY <1>2, <1>3, <1>4

LEMMA SnapshotsOldStep ==
    ASSUME Typed, StepKind, SnapshotsOld
    PROVE  SnapshotsOld'
<1> SUFFICES ASSUME NEW p \in Publishers, NEW s \in publisher'[p].stale
             PROVE  SnapshotOld(s)'
  BY DEF SnapshotsOld
<1>1. CASE s \in publisher[p].stale
  BY <1>1, PublisherRecord, SnapshotOldStep DEF SnapshotsOld
<1>2. ASSUME NEW q \in Publishers, Snaps(q), s \notin publisher[p].stale
      PROVE  SnapshotOld(s)'
  <2>1. PICK T \in anyOf(StaleDeliveries) :
          publisher' = [publisher EXCEPT ![q].pc = "stale",
              ![q].stale = {[delivery |-> d, resets |-> delivery[d].resets,
                             attempts |-> delivery[d].attempts] : d \in T}]
    BY <1>2 DEF Snaps, BeginMaintenance
  <2>2. \A d \in T : d \in Deliveries /\ delivery[d].aged
    BY DEF anyOf, StaleDeliveries
  <2>3. PICK d \in T : s = [delivery |-> d, resets |-> delivery[d].resets,
                            attempts |-> delivery[d].attempts]
    BY <1>2, <2>1, PublisherRecord
  <2>4. s \in Snapshots /\ SnapshotOld(s)
    BY <2>2, <2>3, DeliveryRecord DEF Snapshots, SnapshotOld
  <2> QED BY <2>4, SnapshotOldStep
<1>3. ASSUME FewerSnapshots \/ UNCHANGED publisher PROVE s \in publisher[p].stale
  BY <1>3 DEF FewerSnapshots
<1> QED
  BY <1>1, <1>2, <1>3 DEF StepKind, AnyKind, Works, Begins, Records, Retries, Delays, Recovers,
     Resets, Ages, Accepts, Switches, Rests

-----------------------------------------------------------------------------
(* The steps AckedOnce is about, and all others.                               *)
Accepted(w) ==
    /\ worker[w].pc = "send"
    /\ goto(w, "succeed")
    /\ acks' = [acks EXCEPT ![deliveryId(w)] = @ + 1]
    /\ UNCHANGED <<storeVars, publisher, replaying, budget>>

LEMMA AckKinds ==
    ASSUME Typed, [Next]_vars
    PROVE  \/ \E w \in Workers : Accepted(w)
           \/ \E d \in Deliveries : ReplayCheck(d)
           \/ \E d \in Deliveries : Resets(d) /\ UNCHANGED acks
           \/ UNCHANGED <<acks, replaying>>
<1>1. CASE Api
  <2>1. ASSUME NEW d \in Deliveries, ReplayReset(d) PROVE Resets(d) /\ UNCHANGED acks
    <3>1. /\ delivery' = [delivery EXCEPT ![d] = [status |-> "PENDING", attempts |-> 0,
                                                  resets |-> delivery[d].resets + 1, aged |-> FALSE]]
          /\ outbox' = Append(outbox, NewRow(d, 1, TRUE))
      BY <2>1 DEF ReplayReset, resetForReplay, reschedule
    <3>2. /\ WritesOnly(d) /\ delivery'[d].status = "PENDING" /\ delivery'[d].attempts = 0
          /\ delivery'[d].resets = delivery[d].resets + 1 /\ ~delivery'[d].aged
      BY <3>1, TypedParts DEF StoreTypeOK, WritesOnly
    <3>3. NewRowOf(d, 1)
      BY <3>1, NewRowTyped, AppendedRow
    <3> QED BY <2>1, <3>2, <3>3 DEF ReplayReset, resetForReplay, Resets, dispatcherVars
  <2> QED BY <1>1, <2>1 DEF Api, Ingest, ToggleEndpoint, dispatcherVars
<1>2. CASE \E w \in Workers : (WorkerStep(w) \/ WorkerFault(w)) /\ UNCHANGED <<publisher, replaying>>
  BY <1>2 DEF WorkerStep, WorkerFault, TakeJob, Find, CheckRateLimit, MarkRateLimited, Claim, Send,
     BeginMark, CommitMark, MarkFailed, Finish, CallThrows, CommitThenThrow, CrashWorker, Accepted, at
<1>3. CASE \E p \in Publishers :
             (BeginMaintenance(p) \/ PublisherStep(p) \/ PublisherFault(p)) /\ UNCHANGED replaying
  BY <1>3 DEF BeginMaintenance, PublisherStep, PublisherFault, RecoverStale, FindStranded, InspectJob,
     Unpublish, ReadBatch, AddJob, MarkPublished, CountFailure, AddThrows, MarkThrows, Abort, dispatcherVars
<1>4. CASE Time \/ QueueFault
  BY <1>4 DEF Time, QueueFault, Age, AgeHeld, StallOrphan, StallLive, dispatcherVars
<1> QED
  BY <1>1, <1>2, <1>3, <1>4 DEF Next, vars, dispatcherVars

LEMMA PaidStep ==
    ASSUME Typed, StepKind, BudgetOK
    PROVE  /\ Paid \in Nat /\ Paid' \in Nat /\ Paid <= Paid'
           /\ Spend("crash") \/ Spend("db") \/ Spend("slow") \/ Spend("replay") => Paid + 1 <= Paid'
<1> DEFINE S(k) == Spent(k) \in Nat /\ Spent(k)' \in Nat /\ Spent(k) <= Spent(k)'
<1>1. \A k \in {"crash", "db", "slow", "replay"} : S(k) /\ (Spend(k) => Spent(k)' = Spent(k) + 1)
  BY KindSpends, SpentStep DEF FaultKinds
<1>2. /\ S("crash") /\ (Spend("crash") => Spent("crash")' = Spent("crash") + 1)
      /\ S("db") /\ (Spend("db") => Spent("db")' = Spent("db") + 1)
      /\ S("slow") /\ (Spend("slow") => Spent("slow")' = Spent("slow") + 1)
      /\ S("replay") /\ (Spend("replay") => Spent("replay")' = Spent("replay") + 1)
  BY <1>1
<1>3. ASSUME NEW a \in Nat, NEW b \in Nat, NEW c \in Nat, NEW d \in Nat,
             NEW x \in Nat, NEW y \in Nat, NEW z \in Nat, NEW u \in Nat,
             a <= x, b <= y, c <= z, d <= u
      PROVE  /\ 1 + a + b + c + d \in Nat
             /\ 1 + x + y + z + u \in Nat
             /\ 1 + a + b + c + d <= 1 + x + y + z + u
             /\ x = a + 1 \/ y = b + 1 \/ z = c + 1 \/ u = d + 1
                   => 1 + a + b + c + d + 1 <= 1 + x + y + z + u
  BY <1>3
<1>4. Paid = 1 + Spent("crash") + Spent("db") + Spent("slow") + Spent("replay")
  BY DEF Paid
<1>5. Paid' = 1 + Spent("crash")' + Spent("db")' + Spent("slow")' + Spent("replay")'
  BY DEF Paid
<1> HIDE DEF Paid, Spent, Spend
<1> QED
  BY <1>2, <1>3, <1>4, <1>5

(* How the number of live workers changes when one of them moves.              *)
LEMMA LiveMoves ==
    ASSUME Typed, StoreStep, NEW d \in Deliveries, IsFiniteSet(Live(d)), NEW w \in Workers,
           \A v \in Workers : v # w => worker'[v] = worker[v]
    PROVE  /\ IsFiniteSet(Live(d)') /\ Cardinality(Live(d)) \in Nat /\ Cardinality(Live(d)') \in Nat
           /\ (w \in Live(d)') = (w \in Live(d)) => Cardinality(Live(d)') = Cardinality(Live(d))
           /\ Cardinality(Live(d)') <= Cardinality(Live(d)) + 1
           /\ w \notin Live(d)' => Cardinality(Live(d)') <= Cardinality(Live(d))
           /\ w \in Live(d) /\ w \notin Live(d)' => Cardinality(Live(d)') + 1 = Cardinality(Live(d))
<1>1. ASSUME NEW v \in Workers, v # w PROVE v \in Live(d)' <=> v \in Live(d)
  <2>1. CASE worker[v].pc \in {"send", "retry", "dead"}
    <3>1. deliveryId(v)' = deliveryId(v)
      BY <1>1, <2>1, KeptJob
    <3> QED BY <1>1, <2>1, <3>1 DEF Live
  <2> QED BY <1>1, <2>1 DEF Live
<1> DEFINE L == Live(d)
           M == Live(d)'
<1>2. L \subseteq Workers /\ M \subseteq Workers
  BY DEF Live
<1>3. IsFiniteSet(L)
  OBVIOUS
<1>4. \A v \in Workers : v # w => (v \in M <=> v \in L)
  BY <1>1
<1> HIDE DEF L, M
<1>5. CASE (w \in M) = (w \in L)
  <2>1. M = L
    BY <1>2, <1>4, <1>5
  <2> QED BY <1>3, <2>1, FS_CardinalityType DEF L, M
<1>6. CASE w \in M /\ w \notin L
  <2>1. M = L \cup {w}
    BY <1>2, <1>4, <1>6
  <2>2. /\ IsFiniteSet(M) /\ Cardinality(M) = Cardinality(L) + 1
        /\ Cardinality(L) \in Nat /\ Cardinality(M) \in Nat
    BY <1>3, <1>6, <2>1, FS_AddElement, FS_CardinalityType
  <2> QED BY <1>6, <2>2 DEF L, M
<1>7. CASE w \notin M /\ w \in L
  <2>1. M = L \ {w}
    BY <1>2, <1>4, <1>7
  <2>2. /\ IsFiniteSet(M) /\ Cardinality(M) = Cardinality(L) - 1
        /\ Cardinality(L) \in Nat /\ Cardinality(M) \in Nat
    BY <1>3, <1>7, <2>1, FS_RemoveElement, FS_CardinalityType
  <2> QED BY <1>7, <2>2 DEF L, M
<1> QED
  BY <1>5, <1>6, <1>7

-----------------------------------------------------------------------------
Costs == Spend("crash") \/ Spend("db") \/ Spend("slow")

(* A step does not add to the live workers and the open delivery together, or  *)
(* it is paid for.                                                             *)
Balanced(d) ==
    LET n == Cardinality(Live(d))
        m == Cardinality(Live(d)')
    IN  /\ IsFiniteSet(Live(d)') /\ n \in Nat /\ m \in Nat
        /\ \/ m <= n /\ (Open(d)' => Open(d))
           \/ m <= n + 1 /\ Open(d) /\ ~Open(d)'
           \/ m + 1 = n
           \/ Costs /\ m <= n + 1 /\ (Open(d)' => Open(d))
           \/ Costs /\ m <= n

LEMMA OpenUnlessLost ==
    ASSUME NEW d \in Deliveries, delivery'[d] = delivery[d], AtWork(d) => AtWork(d)'
    PROVE  Open(d)' => Open(d)
  BY DEF Open, Abandoned

LEMMA OpenOrPaid ==
    ASSUME Typed, StepKind, NEW d \in Deliveries, delivery'[d] = delivery[d]
    PROVE  (Open(d)' => Open(d)) \/ Costs
<1>1. delivery[d].attempts \in Nat /\ delivery[d].resets \in Nat
  BY DeliveryRecord
<1>2. CASE delivery[d].status = "PROCESSING" /\ ~delivery[d].aged
  <2>1. \A w \in Workers : ~Begins(w, d)
    BY <1>2 DEF Begins
  <2>2. ~Resets(d) /\ ~Ages(d)
    BY <1>1, <1>2 DEF Resets, Ages
  <2>3. \A w \in Workers : ~Records(w, d) /\ ~Retries(w, d)
    BY <1>2, <2>1, <2>2, OthersLeave
  <2>4. AtWork(d) => AtWork(d)' \/ Spend("crash") \/ Spend("db")
    BY <2>3, AtWorkStep
  <2> QED BY <2>4, OpenUnlessLost DEF Costs
<1>3. CASE ~(delivery[d].status = "PROCESSING" /\ ~delivery[d].aged)
  BY <1>3 DEF Open, Abandoned
<1> QED
  BY <1>2, <1>3

LEMMA StillBalanced ==
    ASSUME Typed, StepKind, NEW d \in Deliveries, IsFiniteSet(Live(d)), UNCHANGED worker,
           Costs \/ (Open(d)' => Open(d))
    PROVE  Balanced(d)
<1>1. Live(d)' = Live(d)
  <2>1. \A v \in Workers : worker[v].pc # "idle" => deliveryId(v)' = deliveryId(v)
    BY KeptJob DEF StepKind
  <2> QED BY <2>1 DEF Live
<1>2. Cardinality(Live(d)) \in Nat
  BY FS_CardinalityType
<1> QED
  BY <1>1, <1>2 DEF Balanced

LEMMA WorksBalanced ==
    ASSUME Typed, StepKind, NEW d \in Deliveries, IsFiniteSet(Live(d)), NEW w \in Workers, Works(w)
    PROVE  Balanced(d)
<1>1. WorksTable(w) /\ StoreStep /\ delivery'[d] = delivery[d]
  BY WorksMoves DEF Works, StepKind
<1>2. (Open(d)' => Open(d)) \/ Costs
  BY <1>1, OpenOrPaid
<1>3. CASE BeginMark(w)
  BY <1>2, <1>3, StillBalanced DEF BeginMark
<1>4. ASSUME w \in Live(d)' => w \in Live(d) PROVE Balanced(d)
  <2>1. \A v \in Workers : v # w => worker'[v] = worker[v]
    BY <1>1 DEF WorksTable
  <2>2. /\ IsFiniteSet(Live(d)') /\ Cardinality(Live(d)) \in Nat /\ Cardinality(Live(d)') \in Nat
        /\ Cardinality(Live(d)') <= Cardinality(Live(d))
    <3>1. CASE w \in Live(d)'
      BY <1>1, <1>4, <2>1, <3>1, LiveMoves
    <3>2. CASE w \notin Live(d)'
      BY <1>1, <2>1, <3>2, LiveMoves
    <3> QED BY <3>1, <3>2
  <2> QED BY <1>2, <2>2 DEF Balanced
<1>5. ASSUME worker'[w].pc \notin {"send", "retry", "dead"} PROVE Balanced(d)
  BY <1>4, <1>5 DEF Live
<1>6. CASE /\ worker[w].pc = "send" /\ Keeps(w)
  <2>1. deliveryId(w)' = deliveryId(w)
    BY <1>1, <1>6, KeptJob DEF Keeps
  <2> QED BY <1>4, <1>6, <2>1 DEF Live
<1>7. CASE worker[w].pc = "succeed" /\ Keeps(w) /\ Spend("db") /\ worker'[w].pc \in {"retry", "dead"}
  <2>1. \A v \in Workers : v # w => worker'[v] = worker[v]
    BY <1>1 DEF WorksTable
  <2>2. AtWork(d) => AtWork(d)'
    <3> SUFFICES ASSUME AtWork(d) PROVE AtWork(d)'
      OBVIOUS
    <3>1. PICK v \in Workers : Holds(v, d) /\ expectedAttempt(v) = delivery[d].attempts
      BY DEF AtWork
    <3>2. /\ worker'[v].job = worker[v].job /\ worker'[v].pc \in HoldingPcs
          /\ worker[v].pc # "idle"
      BY <1>7, <2>1, <3>1 DEF Keeps, Holds, HoldingPcs
    <3> QED BY <1>1, <3>1, <3>2, KeptJob DEF AtWork, Holds
  <2>3. Open(d)' => Open(d)
    BY <1>1, <2>2, OpenUnlessLost
  <2>4. /\ IsFiniteSet(Live(d)') /\ Cardinality(Live(d)) \in Nat /\ Cardinality(Live(d)') \in Nat
        /\ Cardinality(Live(d)') <= Cardinality(Live(d)) + 1
    BY <1>1, <2>1, LiveMoves
  <2> QED BY <1>7, <2>3, <2>4 DEF Balanced, Costs
<1>8. \/ BeginMark(w) \/ worker'[w].pc \notin {"send", "retry", "dead"}
      \/ worker[w].pc = "send" /\ Keeps(w)
      \/ worker[w].pc = "succeed" /\ Keeps(w) /\ Spend("db") /\ worker'[w].pc \in {"retry", "dead"}
  BY <1>1 DEF WorksTable
<1> QED
  BY <1>3, <1>5, <1>6, <1>7, <1>8

LEMMA BeginsBalanced ==
    ASSUME Typed, StepKind, NEW d \in Deliveries, IsFiniteSet(Live(d)), NEW w \in Workers,
           NEW c \in Deliveries, Begins(w, c)
    PROVE  Balanced(d)
<1>1. /\ StoreStep /\ worker[w].pc = "claim" /\ deliveryId(w) = c /\ Answers(w, "send")
      /\ expectedAttempt(w) = delivery[c].attempts + 1
  BY DEF Begins, StepKind
<1>2. /\ \A v \in Workers : v # w => worker'[v] = worker[v]
      /\ Keeps(w) /\ w \notin Live(d)
      /\ worker'[w].pc = "send" \/ (Spend("db") /\ worker'[w].pc = "error")
  BY <1>1, AnswerMoves DEF Live
<1>3. deliveryId(w)' = c /\ expectedAttempt(w)' = delivery[c].attempts + 1
  BY <1>1, <1>2, KeptJob DEF Keeps
<1>4. /\ IsFiniteSet(Live(d)') /\ Cardinality(Live(d)) \in Nat /\ Cardinality(Live(d)') \in Nat
      /\ Cardinality(Live(d)') <= Cardinality(Live(d)) + 1
      /\ w \notin Live(d)' => Cardinality(Live(d)') <= Cardinality(Live(d))
  BY <1>1, <1>2, LiveMoves
<1>5. CASE Spend("db") /\ worker'[w].pc = "error"
  <2>1. w \notin Live(d)'
    BY <1>5 DEF Live
  <2> QED BY <1>4, <1>5, <2>1 DEF Balanced, Costs
<1>6. CASE c = d /\ worker'[w].pc = "send"
  <2>1. AtWork(d)'
    BY <1>3, <1>6 DEF AtWork, Holds, HoldingPcs, Begins
  <2>2. Open(d) /\ ~Open(d)'
    BY <1>6, <2>1 DEF Begins, Open, Abandoned
  <2> QED BY <1>4, <2>2 DEF Balanced
<1>7. CASE c # d
  <2>1. w \notin Live(d)' /\ delivery'[d] = delivery[d]
    BY <1>3, <1>7 DEF Live, Begins, WritesOnly
  <2>2. (Open(d)' => Open(d)) \/ Costs
    BY <2>1, OpenOrPaid
  <2> QED BY <1>4, <2>1, <2>2 DEF Balanced
<1> QED
  BY <1>2, <1>5, <1>6, <1>7

LEMMA AnswersBalanced ==
    ASSUME Typed, StepKind, NEW d \in Deliveries, IsFiniteSet(Live(d)), NEW w \in Workers,
           NEW c \in Deliveries, Records(w, c) \/ Retries(w, c)
    PROVE  Balanced(d)
<1>1. StoreStep /\ worker[w].pc # "idle" /\ deliveryId(w) = c /\ Answers(w, "done")
  BY DEF Records, Retries, StepKind, MarkingPcs
<1>2. /\ \A v \in Workers : v # w => worker'[v] = worker[v]
      /\ Keeps(w)
      /\ \/ worker'[w].pc \in {"done", "error"}
         \/ Spend("db") /\ worker[w].pc = "succeed"
  BY <1>1, AnswerMoves
<1>3. deliveryId(w)' = c
  BY <1>1, <1>2, KeptJob DEF Keeps
<1>4. /\ IsFiniteSet(Live(d)') /\ Cardinality(Live(d)) \in Nat /\ Cardinality(Live(d)') \in Nat
      /\ Cardinality(Live(d)') <= Cardinality(Live(d)) + 1
      /\ w \notin Live(d)' => Cardinality(Live(d)') <= Cardinality(Live(d))
      /\ w \in Live(d) /\ w \notin Live(d)' => Cardinality(Live(d)') + 1 = Cardinality(Live(d))
  BY <1>1, <1>2, LiveMoves
<1>5. CASE c # d
  <2>1. w \notin Live(d)' /\ delivery'[d] = delivery[d]
    BY <1>3, <1>5 DEF Live, Records, Retries, SetsStatus, WritesOnly
  <2>2. (Open(d)' => Open(d)) \/ Costs
    BY <2>1, OpenOrPaid
  <2> QED BY <1>4, <2>1, <2>2 DEF Balanced
<1>6. CASE c = d /\ Records(w, c)
  <2>1. PICK t \in tx : SetsStatus(d, t.status)
    BY <1>6 DEF Records
  <2>2. ~Open(d)'
    BY <2>1, TypedParts DEF StoreTypeOK, OpenTx, Terminal, SetsStatus, Open, Abandoned
  <2>3. CASE worker'[w].pc \in {"done", "error"}
    <3>1. w \notin Live(d)'
      BY <2>3 DEF Live
    <3> QED BY <1>4, <2>2, <3>1 DEF Balanced
  <2>4. CASE Spend("db")
    BY <1>4, <2>2, <2>4 DEF Balanced, Costs
  <2> QED BY <1>2, <2>3, <2>4
<1>7. CASE c = d /\ Retries(w, c)
  <2>1. w \in Live(d) /\ worker[w].pc = "retry"
    BY <1>1, <1>7 DEF Retries, Live
  <2>2. w \notin Live(d)'
    BY <1>2, <2>1 DEF Live
  <2> QED BY <1>4, <2>1, <2>2 DEF Balanced
<1> QED
  BY <1>5, <1>6, <1>7

LEMMA OthersBalanced ==
    ASSUME Typed, StepKind, Unborn, SnapshotsOld, NEW d \in Deliveries, IsFiniteSet(Live(d)),
           UNCHANGED worker, ~Resets(d),
           \A w \in Workers : ~Begins(w, d) /\ ~Records(w, d) /\ ~Retries(w, d) /\ ~Delays(w, d)
    PROVE  Balanced(d)
<1>1. CASE delivery'[d] = delivery[d]
  BY <1>1, OpenOrPaid, StillBalanced
<1>2. CASE Recovers(d)
  <2>1. delivery[d].status = "PROCESSING" /\ delivery[d].aged
    BY <1>2, DeliveryRecord DEF Recovers, SnapshotsOld, SnapshotOld
  <2> QED BY <2>1, StillBalanced DEF Open, Abandoned
<1>3. CASE Ages(d)
  <2>1. ~Held(d) => ~AtWork(d)
    BY DEF Held, AtWork
  <2> QED BY <1>3, <2>1, StillBalanced DEF Ages, Costs, Open, Abandoned
<1>4. ASSUME NEW e \in Events, Accepts(e), delivery'[d] # delivery[d] PROVE Balanced(d)
  <2>1. delivery[d].status = "NONE"
    BY <1>4 DEF Accepts, Unborn
  <2> QED BY <2>1, StillBalanced DEF Open
<1> QED
  BY <1>1, <1>2, <1>3, <1>4, ZenonT(40) DEF StepKind, AnyKind, Works, Begins, Records, Retries, Delays, Recovers,
     Resets, Ages, Accepts, Snaps, Switches, Rests, SetsStatus, WritesOnly

LEMMA KindBalanced ==
    ASSUME Typed, StepKind, Unborn, SnapshotsOld, NEW d \in Deliveries, IsFiniteSet(Live(d)),
           ~Resets(d), \A w \in Workers : worker[w].pc # "delay"
    PROVE  Balanced(d)
<1>1. CASE \E w \in Workers : Works(w)
  BY <1>1, WorksBalanced
<1>2. CASE \E w \in Workers, c \in Deliveries : Begins(w, c)
  BY <1>2, BeginsBalanced
<1>3. CASE \E w \in Workers, c \in Deliveries : Records(w, c) \/ Retries(w, c)
  BY <1>3, AnswersBalanced
<1>4. CASE /\ ~\E w \in Workers : Works(w)
           /\ ~\E w \in Workers, c \in Deliveries : Begins(w, c) \/ Records(w, c) \/ Retries(w, c)
  <2>1. \A w \in Workers, c \in Deliveries : ~Delays(w, c)
    BY DEF Delays
  <2>2. UNCHANGED worker
    BY <1>4, <2>1 DEF StepKind, AnyKind, Recovers, Resets, Ages, Accepts, Snaps, Switches, Rests
  <2> QED BY <1>4, <2>1, <2>2, OthersBalanced
<1> QED
  BY <1>1, <1>2, <1>3, <1>4

LEMMA FiniteLive ==
    ASSUME Typed, StepKind, NEW d \in Deliveries, IsFiniteSet(Live(d))
    PROVE  IsFiniteSet(Live(d)')
<1>1. CASE UNCHANGED worker
  <2>1. \A v \in Workers : worker[v].pc # "idle" => deliveryId(v)' = deliveryId(v)
    BY <1>1, KeptJob DEF StepKind
  <2>2. Live(d)' = Live(d)
    BY <1>1, <2>1 DEF Live
  <2> QED BY <2>2
<1>2. ASSUME NEW w \in Workers, \A v \in Workers : v # w => worker'[v] = worker[v]
      PROVE  IsFiniteSet(Live(d)')
  BY <1>2, LiveMoves DEF StepKind
<1>3. ASSUME NEW w \in Workers, Works(w) PROVE IsFiniteSet(Live(d)')
  BY <1>2, <1>3, WorksMoves DEF WorksTable
<1>4. ASSUME NEW w \in Workers, NEW c \in Deliveries,
             Begins(w, c) \/ Records(w, c) \/ Retries(w, c) \/ Delays(w, c)
      PROVE  IsFiniteSet(Live(d)')
  <2>1. worker[w].pc # "idle" /\ \E to : Answers(w, to)
    BY <1>4 DEF Begins, Records, Retries, Delays, MarkingPcs
  <2> QED BY <1>2, <2>1, AnswerMoves
<1> QED
  BY <1>1, <1>3, <1>4 DEF StepKind, AnyKind, Recovers, Resets, Ages, Accepts, Snaps, Switches, Rests

LEMMA AckStep ==
    ASSUME Typed, SenderOK, SnapshotsOld, NeverRefused, [Next]_vars,
           NEW d \in Deliveries, AckInv(d)
    PROVE  AckInv(d)'
<1>1. /\ StepKind /\ StoreStep /\ BudgetOK /\ Unborn
      /\ IsFiniteSet(Live(d)) /\ Cardinality(Live(d)) \in Nat
      /\ acks \in [Deliveries -> Nat] /\ acks[d] \in Nat
  BY StepKinds, FS_CardinalityType, TypedParts DEF StepKind, SenderOK, AckInv, DispatcherTypeOK
<1>2. /\ Paid \in Nat /\ Paid' \in Nat /\ Paid <= Paid'
      /\ Costs \/ Spend("replay") => Paid + 1 <= Paid'
  BY <1>1, PaidStep DEF Costs
<1>3. /\ Spent("limit") \in Nat /\ Spent("limit")' \in Nat /\ Spent("limit") <= Spent("limit")'
      /\ Spend("limit") => Spent("limit")' = Spent("limit") + 1
  BY <1>1, KindSpends, SpentStep DEF FaultKinds
<1>4. ASSUME UNCHANGED worker
      PROVE  Live(d)' = Live(d)
  <2>1. \A v \in Workers : worker[v].pc # "idle" => deliveryId(v)' = deliveryId(v)
    BY <1>1, <1>4, KeptJob
  <2> QED BY <1>4, <2>1 DEF Live
<1>5. ASSUME NEW w \in Workers, Accepted(w)
      PROVE  AckInv(d)'
  <2>1. /\ \A v \in Workers : v # w => worker'[v] = worker[v]
        /\ worker'[w].pc = "succeed" /\ worker[w].pc = "send" /\ worker'[w].job = worker[w].job
        /\ UNCHANGED <<delivery, budget, replaying>>
    BY <1>5, Moved DEF Accepted, storeVars
  <2>2. deliveryId(w)' = deliveryId(w) /\ expectedAttempt(w)' = expectedAttempt(w)
    BY <1>1, <2>1, KeptJob
  <2>3. w \notin Live(d)' /\ (w \in Live(d) <=> deliveryId(w) = d)
    BY <2>1 DEF Live
  <2>4. AtWork(d) => AtWork(d)'
    <3> SUFFICES ASSUME AtWork(d) PROVE AtWork(d)'
      OBVIOUS
    <3>1. PICK v \in Workers : Holds(v, d) /\ expectedAttempt(v) = delivery[d].attempts
      BY DEF AtWork
    <3>2. /\ worker'[v].job = worker[v].job /\ worker'[v].pc \in HoldingPcs
          /\ worker[v].pc # "idle"
      BY <2>1, <3>1 DEF Holds, HoldingPcs
    <3> QED BY <1>1, <2>1, <3>1, <3>2, KeptJob DEF AtWork, Holds
  <2>5. Open(d)' => Open(d)
    BY <2>1, <2>4, OpenUnlessLost
  <2>6. /\ IsFiniteSet(Live(d)') /\ Cardinality(Live(d)') \in Nat
        /\ deliveryId(w) = d => Cardinality(Live(d)') + 1 = Cardinality(Live(d))
        /\ deliveryId(w) # d => Cardinality(Live(d)') = Cardinality(Live(d))
    BY <1>1, <2>1, <2>3, LiveMoves
  <2>7. /\ deliveryId(w) = d => acks'[d] = acks[d] + 1
        /\ deliveryId(w) # d => acks'[d] = acks[d]
    BY <1>1, <1>5 DEF Accepted
  <2>8. acks'[d] + Cardinality(Live(d)') = acks[d] + Cardinality(Live(d))
    BY <1>1, <2>6, <2>7
  <2>9. ASSUME Spent("limit")' = 0 PROVE Chances(d)' <= Paid'
    <3>1. Chances(d) <= Paid
      BY <1>3, <2>9 DEF AckInv
    <3>2. Chances(d)' <= Chances(d)
      BY <1>1, <2>1, <2>5, <2>6, <2>7, <2>8 DEF Chances
    <3>3. Chances(d) \in Nat /\ Chances(d)' \in Nat
      BY <1>1, <2>6, <2>7 DEF Chances
    <3> QED BY <1>2, <3>1, <3>2, <3>3
  <2> QED BY <2>6, <2>9 DEF AckInv
<1>6. ASSUME NEW c \in Deliveries, ReplayCheck(c)
      PROVE  AckInv(d)'
  <2>1. /\ UNCHANGED <<delivery, worker, acks, outbox>> /\ Spend("replay")
        /\ replaying' = replaying \cup {c} /\ c \notin replaying
    BY <1>6 DEF ReplayCheck, storeVars, dispatcherVars
  <2>2. Live(d)' = Live(d) /\ (Open(d)' <=> Open(d))
    BY <1>4, <2>1 DEF Open, Abandoned, AtWork, Holds, deliveryId, expectedAttempt
  <2>3. Chances(d)' <= Chances(d) + 1 /\ Chances(d) \in Nat /\ Chances(d)' \in Nat
    BY <1>1, <2>1, <2>2 DEF Chances
  <2>4. Paid + 1 <= Paid'
    BY <1>2, <2>1
  <2> QED BY <1>1, <1>2, <1>3, <2>2, <2>3, <2>4 DEF AckInv
<1>7. CASE Resets(d) /\ UNCHANGED acks
  <2>1. /\ UNCHANGED <<worker, budget>> /\ d \in replaying /\ d \notin replaying'
    BY <1>7 DEF Resets
  <2>2. Live(d)' = Live(d)
    BY <1>4, <2>1
  <2>3. Chances(d)' <= Chances(d) /\ Chances(d) \in Nat /\ Chances(d)' \in Nat
    BY <1>1, <1>7, <2>1, <2>2 DEF Chances
  <2> QED BY <1>1, <1>2, <1>3, <2>2, <2>3 DEF AckInv
<1>8. CASE ~Resets(d) /\ (d \in replaying' => d \in replaying) /\ UNCHANGED acks
  <2>1. ASSUME Spent("limit")' = 0 PROVE Balanced(d) /\ Chances(d) <= Paid
    <3>1. Spent("limit") = 0
      BY <1>3, <2>1
    <3>2. \A w \in Workers : worker[w].pc # "delay"
      BY <3>1 DEF NeverRefused
    <3> QED BY <1>1, <1>8, <3>1, <3>2, KindBalanced DEF AckInv
  <2>2. ASSUME Spent("limit")' = 0 PROVE AckInv(d)'
    <3>1. Balanced(d) /\ Chances(d) <= Paid
      BY <2>1, <2>2
    <3> DEFINE n == Cardinality(Live(d))
               m == Cardinality(Live(d)')
    <3>2. /\ IsFiniteSet(Live(d)') /\ n \in Nat /\ m \in Nat
          /\ \/ m <= n /\ (Open(d)' => Open(d))
             \/ m <= n + 1 /\ Open(d) /\ ~Open(d)'
             \/ m + 1 = n
             \/ Costs /\ m <= n + 1 /\ (Open(d)' => Open(d))
             \/ Costs /\ m <= n
      BY <3>1 DEF Balanced
    <3> DEFINE a == acks[d]
               x == IF Open(d) THEN 1 ELSE 0
               y == IF Open(d)' THEN 1 ELSE 0
               u == IF d \in replaying THEN 1 ELSE 0
               z == IF d \in replaying' THEN 1 ELSE 0
    <3>3. Chances(d) = a + n + x + u /\ Chances(d)' = a + m + y + z
      BY <1>8 DEF Chances
    <3>4. /\ x \in 0..1 /\ y \in 0..1 /\ u \in 0..1 /\ z \in 0..1 /\ z <= u /\ a \in Nat
          /\ (Open(d)' => Open(d)) => y <= x
          /\ Open(d) /\ ~Open(d)' => y + 1 <= x
      BY <1>1, <1>8
    <3> HIDE DEF a, n, m, x, y, u, z
    <3>5. m + y <= n + x \/ (Costs /\ m + y <= n + x + 1)
      BY <3>2, <3>4
    <3>6. Chances(d)' <= Paid'
      BY <1>2, <3>1, <3>2, <3>3, <3>4, <3>5
    <3> QED BY <3>2, <3>6 DEF AckInv
  <2>3. IsFiniteSet(Live(d)')
    BY <1>1, FiniteLive
  <2> QED BY <2>2, <2>3 DEF AckInv
<1> QED
  <2>1. ASSUME NEW c \in Deliveries, Resets(c) PROVE c # d => ~Resets(d)
    BY <2>1, DeliveryRecord DEF Resets, WritesOnly
  <2> QED BY <1>5, <1>6, <1>7, <1>8, <2>1, AckKinds DEF Resets

(* AckedOnce: with recovery, duplicated jobs, replays and workers that die,    *)
(* time out or throw at any point, each acceptance beyond the first is paid    *)
(* for by an outcome that was lost or by a replay.                             *)
THEOREM AcksAccounted == Spec => []AckedOnce
<1> DEFINE I == \A d \in Deliveries : AckInv(d)
<1>1. Typed /\ SenderOK /\ SchedOK /\ SnapshotsOld /\ I /\ [Next]_vars => SnapshotsOld' /\ I'
  BY StepKinds, SnapshotsOldStep, AckStep DEF SchedOK
<1>2. Typed /\ I => AckedOnce
  <2> SUFFICES ASSUME Typed, NEW d \in Deliveries, AckInv(d), Spent("limit") = 0
               PROVE  acks[d] <= Paid
    BY DEF AckedOnce, Paid
  <2>1. Chances(d) <= Paid /\ Cardinality(Live(d)) \in Nat /\ acks[d] \in Nat
    BY FS_CardinalityType, TypedParts DEF AckInv, DispatcherTypeOK
  <2>2. budget \in [FaultKinds -> Nat]
    BY DEF Typed, TypeOK, FaultTypeOK
  <2>3. Paid \in Int
    BY <2>2, BudgetAssumption DEF Paid, Spent, FaultKinds
  <2> QED BY <2>1, <2>3 DEF Chances
<1>3. Init => SnapshotsOld /\ I
  BY InitAcked
<1> HIDE DEF I
<1> QED
  BY <1>1, <1>2, <1>3, AlwaysScheduled, AlwaysTyped, PTL DEF Spec
=============================================================================
