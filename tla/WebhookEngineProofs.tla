------------------------- MODULE WebhookEngineProofs -------------------------
EXTENDS WebhookEngine, TLAPS, FiniteSetTheorems, SequenceTheorems, WellFoundedInduction

(* A non-empty set of naturals has a least element.                            *)
LEMMA LeastNat ==
    ASSUME NEW S \in SUBSET Nat, S # {}
    PROVE  \E m \in S : \A n \in S : m <= n
<1> DEFINE R == {ss \in Nat \X Nat : ss[1] < ss[2]}
<1>1. IsWellFoundedOn(R, Nat)
  BY NatLessThanWellFounded DEF OpToRel
<1>2. PICK m \in S : \A n \in S : ~(<<n, m>> \in R)
  <2> HIDE DEF R
  <2> QED BY <1>1, WFMin
<1>3. \A n \in S : ~(n < m)
  BY <1>2
<1> QED
  BY <1>3

-----------------------------------------------------------------------------
(* The outbox only grows, and a row keeps its delivery and attempt.            *)
Extends(new, old) ==
    /\ new \in Seq(OutboxRow)
    /\ DOMAIN old \subseteq DOMAIN new
    /\ \A i \in DOMAIN old : /\ new[i].delivery = old[i].delivery
                             /\ new[i].attempt = old[i].attempt

LEMMA AppendRow ==
    ASSUME NEW s \in Seq(OutboxRow), NEW row \in OutboxRow
    PROVE  /\ Extends(Append(s, row), s)
           /\ DOMAIN Append(s, row) = DOMAIN s \cup {Len(s) + 1}
           /\ Len(s) + 1 \notin DOMAIN s
           /\ Append(s, row)[Len(s) + 1] = row
  BY DEF Extends

LEMMA UpdateRow ==
    ASSUME NEW s \in Seq(OutboxRow), NEW r \in DOMAIN s, NEW row \in OutboxRow,
           row.delivery = s[r].delivery, row.attempt = s[r].attempt
    PROVE  /\ Extends([s EXCEPT ![r] = row], s)
           /\ DOMAIN [s EXCEPT ![r] = row] = DOMAIN s
  BY DEF Extends

LEMMA SameRows ==
    ASSUME NEW s \in Seq(OutboxRow)
    PROVE  Extends(s, s)
  BY DEF Extends

LEMMA RowsOK ==
    ASSUME NEW s \in Seq(OutboxRow), NEW r \in DOMAIN s
    PROVE  s[r] \in OutboxRow /\ r \in Nat
  OBVIOUS

(* Every job and every snapshot refers to a row that exists, and a publisher   *)
(* about to add a job has one left to add.                                     *)
RefsOK ==
    /\ \A j \in waiting : j.row \in DOMAIN outbox
    /\ \A x \in running : x[1].row \in DOMAIN outbox
    /\ \A w \in Workers : worker[w].pc # "idle" => worker[w].job.row \in DOMAIN outbox
    /\ \A p \in Publishers :
          /\ \A j \in publisher[p].batch : j.row \in DOMAIN outbox
          /\ publisher[p].pc \in {"unpublish", "mark", "count"}
                => publisher[p].item.row \in DOMAIN outbox
          /\ publisher[p].pc = "add" => publisher[p].batch # {}

Typed == TypeOK /\ RefsOK

(* What a worker's job refers to.                                              *)
LEMMA JobTyped ==
    ASSUME Typed, NEW w \in Workers, worker[w].pc # "idle"
    PROVE  /\ deliveryId(w) \in Deliveries
           /\ expectedAttempt(w) \in Nat
           /\ worker[w].job \in Jobs
           /\ worker[w].job.row \in DOMAIN outbox
  BY RowsOK DEF Typed, TypeOK, RefsOK, StoreTypeOK, DispatcherTypeOK, deliveryId,
     expectedAttempt, OutboxRow

-----------------------------------------------------------------------------
(* The job a publisher takes next is one of its batch.                         *)
LEMMA NextItem ==
    ASSUME Typed, NEW p \in Publishers, publisher[p].batch # {}
    PROVE  nextItem(p) \in publisher[p].batch
<1> DEFINE rows == {j.row : j \in publisher[p].batch}
<1>1. publisher[p].batch \in SUBSET Jobs
  BY DEF Typed, TypeOK, PublisherTypeOK
<1>2. rows \in SUBSET Nat /\ rows # {}
  BY <1>1 DEF Jobs
<1>3. PICK m \in rows : \A n \in rows : m <= n
  <2> HIDE DEF rows
  <2> QED BY <1>2, LeastNat
<1>4. \E j \in publisher[p].batch : \A k \in publisher[p].batch : j.row <= k.row
  BY <1>3
<1> QED
  BY <1>4 DEF nextItem

LEMMA InitTyped == Init => Typed
  BY BudgetAssumption DEF Init, Typed, TypeOK, RefsOK, StoreInit, QueueInit, DispatcherInit,
     PublisherInit, FaultInit, StoreTypeOK, QueueTypeOK, DispatcherTypeOK, PublisherTypeOK,
     FaultTypeOK, DeliveryRow, EventStatus, NoJob, Jobs, Idle, WorkerPcs, PublisherPcs,
     HoldingPcs, MarkingPcs

-----------------------------------------------------------------------------
(* The transactions of the store keep its types and let the outbox grow.       *)
StoreStep == StoreTypeOK' /\ Extends(outbox', outbox)

LEMMA UnchangedStore ==
    ASSUME Typed, UNCHANGED storeVars
    PROVE  StoreStep
  BY SameRows DEF Typed, TypeOK, StoreTypeOK, storeVars, StoreStep

LEMMA Reschedule ==
    ASSUME Typed, NEW d \in Deliveries, NEW updated \in DeliveryRow, NEW scheduled \in OutboxRow,
           reschedule(d, updated, scheduled),
           event' \in [Events -> EventStatus], UNCHANGED <<tx, active>>
    PROVE  StoreStep
  BY AppendRow DEF Typed, TypeOK, StoreTypeOK, reschedule, StoreStep, Extends

LEMMA CreateTyped ==
    ASSUME Typed, NEW e \in Events, NEW subscribed \in SUBSET Endpoints,
           createForTenant(e, subscribed)
    PROVE  StoreStep
<1>1. PICK order \in [1..Cardinality(subscribed) -> subscribed] :
        outbox' = outbox \o [i \in DOMAIN order |-> NewRow(<<e, order[i]>>, 1, TRUE)]
  BY DEF createForTenant
<1>2. Cardinality(subscribed) \in Nat
  BY StoreAssumption, FS_Subset, FS_CardinalityType
<1> DEFINE rows == [i \in DOMAIN order |-> NewRow(<<e, order[i]>>, 1, TRUE)]
<1>3. rows \in Seq(OutboxRow)
  <2>1. \A i \in 1..Cardinality(subscribed) : NewRow(<<e, order[i]>>, 1, TRUE) \in OutboxRow
    BY DEF NewRow, OutboxRow, Deliveries
  <2>2. DOMAIN order = 1..Cardinality(subscribed)
    OBVIOUS
  <2>3. rows \in [1..Cardinality(subscribed) -> OutboxRow]
    BY <2>1, <2>2
  <2> HIDE DEF rows
  <2> QED BY <1>2, <2>3
<1>4. outbox \in Seq(OutboxRow) /\ outbox' = outbox \o rows
  BY <1>1 DEF Typed, TypeOK, StoreTypeOK
<1>5. Extends(outbox', outbox)
  <2> HIDE DEF rows
  <2>1. /\ outbox' \in Seq(OutboxRow)
        /\ Len(outbox') = Len(outbox) + Len(rows)
        /\ \A i \in 1 .. Len(outbox) + Len(rows) :
              outbox'[i] = IF i <= Len(outbox) THEN outbox[i] ELSE rows[i - Len(outbox)]
    BY <1>3, <1>4, ConcatProperties
  <2>2. Len(rows) \in Nat /\ Len(outbox) \in Nat
    BY <1>3, <1>4
  <2> QED BY <1>4, <2>1, <2>2 DEF Extends
<1>6. StoreTypeOK'
  <2>1. event' \in [Events -> EventStatus] /\ UNCHANGED <<tx, active>>
    BY DEF createForTenant, Typed, TypeOK, StoreTypeOK, EventStatus
  <2>2. \A d \in Deliveries : [delivery[d] EXCEPT !.status = "PENDING"] \in DeliveryRow
    BY DEF Typed, TypeOK, StoreTypeOK, DeliveryRow, Unfinished
  <2>3. delivery' \in [Deliveries -> DeliveryRow]
    BY <2>2 DEF createForTenant, Typed, TypeOK, StoreTypeOK
  <2> QED BY <1>5, <2>1, <2>3 DEF Typed, TypeOK, StoreTypeOK, Extends
<1> QED
  BY <1>5, <1>6 DEF StoreStep

LEMMA ClaimTyped ==
    ASSUME Typed, NEW d \in Deliveries, NEW n \in Nat, claimForProcessing(d, n)
    PROVE  StoreStep
  BY SameRows DEF Typed, TypeOK, StoreTypeOK, claimForProcessing, StoreStep, DeliveryRow,
     EventStatus, Unfinished, Deliveries

LEMMA BeginMarkTyped ==
    ASSUME Typed, NEW w \in Workers, NEW d \in Deliveries, NEW status \in Terminal,
           beginMark(w, d, status)
    PROVE  StoreStep
  BY SameRows, SMTT(20) DEF Typed, TypeOK, StoreTypeOK, beginMark, StoreStep, OpenTx, calculateEventStatus

LEMMA CommitMarkTyped ==
    ASSUME Typed, NEW w \in Workers, NEW d \in Deliveries, commitMark(w, d)
    PROVE  StoreStep
<1>1. PICK t \in tx :
        /\ delivery' = [delivery EXCEPT ![d].status = t.status]
        /\ event' = [event EXCEPT ![d[1]] = t.event]
        /\ tx' = tx \ {t}
        /\ UNCHANGED <<outbox, active>>
  BY DEF commitMark
<1>2. t.status \in Terminal /\ t.event \in EventStatus
  BY DEF Typed, TypeOK, StoreTypeOK, OpenTx, EventStatus
<1>3. delivery' \in [Deliveries -> DeliveryRow]
  BY <1>1, <1>2 DEF Typed, TypeOK, StoreTypeOK, DeliveryRow
<1>4. event' \in [Events -> EventStatus]
  BY <1>1, <1>2 DEF Typed, TypeOK, StoreTypeOK
<1> QED
  BY <1>1, <1>3, <1>4, SameRows DEF Typed, TypeOK, StoreTypeOK, StoreStep

LEMMA RollbackTyped ==
    ASSUME Typed, NEW w \in Workers, rollback(w)
    PROVE  StoreStep
  BY SameRows DEF Typed, TypeOK, StoreTypeOK, rollback, StoreStep

LEMMA MarkFailedTyped ==
    ASSUME Typed, NEW d \in Deliveries, NEW n \in Nat, markFailedAndSchedule(d, n)
    PROVE  StoreStep
<1>1. [delivery[d] EXCEPT !.status = "FAILED"] \in DeliveryRow
  BY DEF Typed, TypeOK, StoreTypeOK, DeliveryRow, Unfinished
<1>2. NewRow(d, n, FALSE) \in OutboxRow
  BY DEF NewRow, OutboxRow
<1>3. event' \in [Events -> EventStatus]
  BY DEF markFailedAndSchedule, Typed, TypeOK, StoreTypeOK
<1> QED
  BY <1>1, <1>2, <1>3, Reschedule DEF markFailedAndSchedule

LEMMA MarkRateLimitedTyped ==
    ASSUME Typed, NEW d \in Deliveries, NEW n \in Nat, markRateLimitedAndSchedule(d, n)
    PROVE  StoreStep
<1>1. [delivery[d] EXCEPT !.status = "PENDING"] \in DeliveryRow
  BY DEF Typed, TypeOK, StoreTypeOK, DeliveryRow, Unfinished
<1>2. NewRow(d, n, FALSE) \in OutboxRow
  BY DEF NewRow, OutboxRow
<1>3. event' \in [Events -> EventStatus]
  BY DEF markRateLimitedAndSchedule, Typed, TypeOK, StoreTypeOK
<1> QED
  BY <1>1, <1>2, <1>3, Reschedule DEF markRateLimitedAndSchedule

LEMMA ResetTyped ==
    ASSUME Typed, NEW d \in Deliveries, resetForReplay(d)
    PROVE  StoreStep
<1>1. [status |-> "PENDING", attempts |-> 0, resets |-> delivery[d].resets + 1,
       aged |-> FALSE] \in DeliveryRow
  BY DEF Typed, TypeOK, StoreTypeOK, DeliveryRow, Unfinished
<1>2. NewRow(d, 1, TRUE) \in OutboxRow
  BY DEF NewRow, OutboxRow
<1>3. event' \in [Events -> EventStatus]
  BY DEF resetForReplay, Typed, TypeOK, StoreTypeOK, EventStatus
<1> QED
  BY <1>1, <1>2, <1>3, Reschedule DEF resetForReplay

LEMMA RecoverTyped ==
    ASSUME Typed, NEW s \in Snapshots, recoverStale(s)
    PROVE  StoreStep
<1>1. s.delivery \in Deliveries /\ s.attempts \in Nat
  BY DEF Snapshots
<1>2. [delivery[s.delivery] EXCEPT !.status = "FAILED"] \in DeliveryRow
  BY <1>1 DEF Typed, TypeOK, StoreTypeOK, DeliveryRow, Unfinished
<1>3. NewRow(s.delivery, s.attempts + 1, TRUE) \in OutboxRow
  BY <1>1 DEF NewRow, OutboxRow
<1>4. event' \in [Events -> EventStatus]
  BY DEF recoverStale, Typed, TypeOK, StoreTypeOK
<1>5. CASE UNCHANGED <<delivery, outbox>>
  BY <1>5, UnchangedStore DEF recoverStale, storeVars
<1>6. CASE reschedule(s.delivery, [delivery[s.delivery] EXCEPT !.status = "FAILED"],
                      NewRow(s.delivery, s.attempts + 1, TRUE))
  BY <1>1, <1>2, <1>3, <1>4, <1>6, Reschedule DEF recoverStale
<1> QED
  BY <1>5, <1>6 DEF recoverStale

LEMMA CountedRow ==
    ASSUME NEW row \in OutboxRow
    PROVE  /\ [row EXCEPT !.tries = @ + 1] \in OutboxRow
           /\ [row EXCEPT !.published = FALSE, !.tries = @ + 1] \in OutboxRow
<1>1. row.tries + 1 \in Nat
  BY DEF OutboxRow
<1> QED
  BY <1>1 DEF OutboxRow

(* Every update of a row in place is one of these.                             *)
LEMMA RowUpdateTyped ==
    ASSUME Typed, NEW r \in DOMAIN outbox,
           \/ setPublished(r) \/ countFailure(r) \/ unpublish(r)
           \/ outbox' = [outbox EXCEPT ![r].due = TRUE] /\ UNCHANGED <<delivery, event, tx, active>>
    PROVE  StoreStep /\ DOMAIN outbox' = DOMAIN outbox /\ UNCHANGED <<delivery, event>>
<1>1. outbox \in Seq(OutboxRow) /\ outbox[r] \in OutboxRow
  BY RowsOK DEF Typed, TypeOK, StoreTypeOK
<1>2. \E row \in OutboxRow : /\ row.delivery = outbox[r].delivery
                             /\ row.attempt = outbox[r].attempt
                             /\ outbox' = [outbox EXCEPT ![r] = row]
  <2>1. CASE setPublished(r)
    BY <1>1, <2>1 DEF setPublished, OutboxRow
  <2>2. CASE countFailure(r)
    <3>1. [outbox[r] EXCEPT !.tries = @ + 1] \in OutboxRow
      BY <1>1, CountedRow
    <3> WITNESS [outbox[r] EXCEPT !.tries = @ + 1] \in OutboxRow
    <3> QED BY <1>1, <2>2 DEF countFailure, OutboxRow
  <2>3. CASE unpublish(r)
    <3>1. [outbox[r] EXCEPT !.published = FALSE, !.tries = @ + 1] \in OutboxRow
      BY <1>1, CountedRow
    <3> WITNESS [outbox[r] EXCEPT !.published = FALSE, !.tries = @ + 1] \in OutboxRow
    <3> QED BY <1>1, <2>3 DEF unpublish, OutboxRow
  <2>4. CASE outbox' = [outbox EXCEPT ![r].due = TRUE]
    BY <1>1, <2>4 DEF OutboxRow
  <2> QED BY <2>1, <2>2, <2>3, <2>4
<1>3. Extends(outbox', outbox) /\ DOMAIN outbox' = DOMAIN outbox
  <2>1. PICK row \in OutboxRow : /\ row.delivery = outbox[r].delivery
                                /\ row.attempt = outbox[r].attempt
                                /\ outbox' = [outbox EXCEPT ![r] = row]
    BY <1>2
  <2> QED BY <1>1, <2>1, UpdateRow
<1>4. UNCHANGED <<delivery, event, tx, active>>
  BY DEF setPublished, countFailure, unpublish
<1> QED
  BY <1>3, <1>4 DEF Typed, TypeOK, StoreTypeOK, StoreStep, Extends

LEMMA AgeTyped ==
    ASSUME Typed, NEW d \in Deliveries, age(d)
    PROVE  StoreStep
  BY SameRows DEF Typed, TypeOK, StoreTypeOK, age, StoreStep, DeliveryRow

LEMMA SetActiveTyped ==
    ASSUME Typed, NEW p \in Endpoints, setActive(p)
    PROVE  StoreStep
  BY SameRows DEF Typed, TypeOK, StoreTypeOK, setActive, StoreStep

-----------------------------------------------------------------------------
LEMMA SpendTyped ==
    ASSUME Typed, NEW kind \in FaultKinds, Spend(kind)
    PROVE  budget' \in [FaultKinds -> Nat]
  BY DEF Typed, TypeOK, FaultTypeOK, Spend

(* The parts of Typed a step of one component leaves to the others.            *)
PublisherRefs(rows) ==
    \A p \in Publishers :
        /\ \A j \in publisher[p].batch : j.row \in rows
        /\ publisher[p].pc \in {"unpublish", "mark", "count"} => publisher[p].item.row \in rows
        /\ publisher[p].pc = "add" => publisher[p].batch # {}

QueueRefs(rows) ==
    /\ \A j \in waiting : j.row \in rows
    /\ \A x \in running : x[1].row \in rows

WorkerRefs(rows) ==
    \A w \in Workers : worker[w].pc # "idle" => worker[w].job.row \in rows

LEMMA TypedParts ==
    Typed <=> /\ StoreTypeOK /\ QueueTypeOK /\ DispatcherTypeOK /\ PublisherTypeOK
              /\ FaultTypeOK /\ replaying \in SUBSET Deliveries
              /\ QueueRefs(DOMAIN outbox) /\ WorkerRefs(DOMAIN outbox)
              /\ PublisherRefs(DOMAIN outbox)
  BY DEF Typed, TypeOK, RefsOK, QueueRefs, WorkerRefs, PublisherRefs

LEMMA TypedPartsPrime ==
    Typed' <=> /\ StoreTypeOK' /\ QueueTypeOK' /\ DispatcherTypeOK' /\ PublisherTypeOK'
               /\ FaultTypeOK' /\ replaying' \in SUBSET Deliveries
               /\ QueueRefs(DOMAIN outbox)' /\ WorkerRefs(DOMAIN outbox)'
               /\ PublisherRefs(DOMAIN outbox)'
  BY DEF Typed, TypeOK, RefsOK, QueueRefs, WorkerRefs, PublisherRefs

LEMMA QueueIdle ==
    ASSUME Typed, StoreStep, UNCHANGED queueVars
    PROVE  QueueTypeOK' /\ QueueRefs(DOMAIN outbox)'
  BY TypedParts DEF QueueTypeOK, QueueRefs, queueVars, StoreStep, Extends

LEMMA DispatcherIdle ==
    ASSUME Typed, StoreStep, UNCHANGED dispatcherVars
    PROVE  DispatcherTypeOK' /\ WorkerRefs(DOMAIN outbox)'
  BY TypedParts DEF DispatcherTypeOK, WorkerRefs, dispatcherVars, StoreStep, Extends

LEMMA PublisherIdle ==
    ASSUME Typed, StoreStep, UNCHANGED publisher
    PROVE  PublisherTypeOK' /\ PublisherRefs(DOMAIN outbox)'
  BY TypedParts DEF PublisherTypeOK, PublisherRefs, StoreStep, Extends

(* A step of one worker that leaves the queue alone.                           *)
LEMMA GotoTyped ==
    ASSUME Typed, StoreStep, NEW w \in Workers, worker[w].pc # "idle",
           NEW pc \in WorkerPcs, goto(w, pc),
           acks' \in [Deliveries -> Nat], budget' \in [FaultKinds -> Nat],
           UNCHANGED <<queueVars, publisher, replaying>>
    PROVE  Typed'
<1>1. DispatcherTypeOK'
  BY TypedParts DEF DispatcherTypeOK, goto
<1>2. WorkerRefs(DOMAIN outbox)'
  BY TypedParts DEF DispatcherTypeOK, WorkerRefs, goto, StoreStep, Extends
<1> QED
  BY <1>1, <1>2, TypedParts, TypedPartsPrime, QueueIdle, PublisherIdle DEF StoreStep, FaultTypeOK

(* A worker that becomes idle keeps no reference.                              *)
LEMMA StopTyped ==
    ASSUME Typed, StoreStep, NEW w \in Workers,
           worker' = [worker EXCEPT ![w] = [pc |-> "idle", job |-> NoJob]],
           budget' \in [FaultKinds -> Nat], QueueTypeOK', QueueRefs(DOMAIN outbox)',
           UNCHANGED <<acks, publisher, replaying>>
    PROVE  Typed'
<1>1. [pc |-> "idle", job |-> NoJob] \in [pc : WorkerPcs, job : Jobs]
  BY DEF WorkerPcs, NoJob, Jobs
<1>2. DispatcherTypeOK'
  BY <1>1, TypedParts DEF DispatcherTypeOK
<1>3. WorkerRefs(DOMAIN outbox)'
  BY <1>1, TypedParts DEF DispatcherTypeOK, WorkerRefs, StoreStep, Extends
<1> QED
  BY <1>2, <1>3, TypedParts, TypedPartsPrime, PublisherIdle DEF StoreStep, FaultTypeOK

(* What each step of a worker does to the types, action by action.             *)
LEMMA WorkerTyped ==
    ASSUME Typed, NEW w \in Workers, WorkerStep(w) \/ WorkerFault(w),
           UNCHANGED <<publisher, replaying>>
    PROVE  Typed'
<1> USE DEF at
<1>1. /\ acks \in [Deliveries -> Nat] /\ budget \in [FaultKinds -> Nat]
      /\ worker[w].pc \in WorkerPcs
  BY TypedParts DEF DispatcherTypeOK, FaultTypeOK
<1>2. CASE TakeJob(w)
  <2>1. PICK j \in waiting : take(j, w) /\ worker' = [worker EXCEPT ![w] = [pc |-> "find", job |-> j]]
    BY <1>2 DEF TakeJob
  <2>2. StoreStep
    BY <1>2, UnchangedStore DEF TakeJob
  <2>3. j \in Jobs /\ j.row \in DOMAIN outbox
    BY TypedParts DEF QueueTypeOK, QueueRefs
  <2>4. QueueTypeOK' /\ QueueRefs(DOMAIN outbox)'
    BY <2>1, <2>2, <2>3, TypedParts DEF QueueTypeOK, QueueRefs, take, StoreStep, Extends
  <2>5. DispatcherTypeOK'
    BY <1>2, <2>1, <2>3, TypedParts DEF TakeJob, DispatcherTypeOK, WorkerPcs
  <2>6. WorkerRefs(DOMAIN outbox)'
    BY <2>1, <2>2, <2>3, TypedParts DEF DispatcherTypeOK, WorkerRefs, StoreStep, Extends
  <2> QED
    BY <1>2, <2>2, <2>4, <2>5, <2>6, TypedParts, TypedPartsPrime, PublisherIdle
    DEF TakeJob, StoreStep, FaultTypeOK
<1>3. CASE Find(w)
  <2>1. PICK pc \in {"done", "cancel", "limit"} : goto(w, pc)
    BY <1>3 DEF Find
  <2> QED
    BY <1>1, <1>3, <2>1, UnchangedStore, GotoTyped DEF Find, WorkerPcs, MarkingPcs
<1>4. CASE CheckRateLimit(w)
  <2>1. PICK pc \in {"claim", "delay"} : goto(w, pc)
    BY <1>4 DEF CheckRateLimit
  <2>2. budget' \in [FaultKinds -> Nat]
    BY <1>1, <1>4, SpendTyped DEF CheckRateLimit, FaultKinds
  <2> QED
    BY <1>1, <1>4, <2>1, <2>2, UnchangedStore, GotoTyped DEF CheckRateLimit, WorkerPcs
<1>5. CASE MarkRateLimited(w)
  <2>1. StoreStep
    BY <1>5, JobTyped, MarkRateLimitedTyped DEF MarkRateLimited
  <2> QED
    BY <1>1, <1>5, <2>1, GotoTyped DEF MarkRateLimited, WorkerPcs
<1>6. CASE Claim(w)
  <2>1. StoreStep
    BY <1>6, JobTyped, ClaimTyped, UnchangedStore DEF Claim
  <2>2. PICK pc \in {"send", "done"} : goto(w, pc)
    BY <1>6 DEF Claim
  <2> QED
    BY <1>1, <1>6, <2>1, <2>2, GotoTyped DEF Claim, WorkerPcs, HoldingPcs
<1>7. CASE Send(w)
  <2>1. PICK pc \in {"succeed", "retry", "dead"} : goto(w, pc)
    BY <1>7 DEF Send, catchPc
  <2>2. acks' \in [Deliveries -> Nat]
    BY <1>1, <1>7, JobTyped DEF Send
  <2> QED
    BY <1>1, <1>7, <2>1, <2>2, UnchangedStore, GotoTyped DEF Send, WorkerPcs, HoldingPcs
<1>8. CASE BeginMark(w)
  <2>1. MarkStatus(worker[w].pc) \in Terminal /\ worker[w].pc # "idle"
    BY <1>8 DEF BeginMark, MarkStatus, MarkingPcs, Terminal
  <2>2. StoreStep
    BY <1>8, <2>1, JobTyped, BeginMarkTyped DEF BeginMark
  <2> QED
    BY <1>1, <1>8, <2>1, <2>2, TypedParts, TypedPartsPrime, QueueIdle, DispatcherIdle, PublisherIdle
    DEF BeginMark, StoreStep, FaultTypeOK, dispatcherVars
<1>9. CASE CommitMark(w)
  <2>1. worker[w].pc # "idle"
    BY <1>9 DEF CommitMark, MarkingPcs
  <2>2. StoreStep
    BY <1>9, <2>1, JobTyped, CommitMarkTyped DEF CommitMark
  <2> QED
    BY <1>1, <1>9, <2>1, <2>2, GotoTyped DEF CommitMark, WorkerPcs
<1>10. CASE MarkFailed(w)
  <2>1. StoreStep
    BY <1>10, JobTyped, MarkFailedTyped DEF MarkFailed
  <2> QED
    BY <1>1, <1>10, <2>1, GotoTyped DEF MarkFailed, WorkerPcs
<1>11. CASE Finish(w)
  <2>1. StoreStep
    BY <1>11, UnchangedStore DEF Finish
  <2>2. worker[w].job \in Jobs /\ worker[w].job.row \in DOMAIN outbox
    BY <1>11, JobTyped DEF Finish
  <2>3. QueueTypeOK' /\ QueueRefs(DOMAIN outbox)'
    BY <1>11, <2>1, <2>2, TypedParts
    DEF Finish, complete, fail, QueueTypeOK, QueueRefs, StoreStep, Extends
  <2> QED
    BY <1>1, <1>11, <2>1, <2>3, StopTyped DEF Finish
<1>12. CASE CallThrows(w)
  <2>1. StoreStep
    BY <1>12, RollbackTyped DEF CallThrows
  <2>2. PICK pc \in {"retry", "dead", "error"} : goto(w, pc)
    BY <1>12 DEF CallThrows, afterThrow, catchPc
  <2>3. budget' \in [FaultKinds -> Nat]
    BY <1>12, SpendTyped DEF CallThrows, FaultKinds
  <2> QED
    BY <1>1, <1>12, <2>1, <2>2, <2>3, GotoTyped DEF CallThrows, WorkerPcs, HoldingPcs
<1>13. CASE CommitThenThrow(w)
  <2>1. worker[w].pc # "idle"
    BY <1>13 DEF CommitThenThrow, MarkingPcs
  <2>2. StoreStep
    BY <1>13, <2>1, JobTyped, CommitMarkTyped, ClaimTyped, MarkFailedTyped, MarkRateLimitedTyped
    DEF CommitThenThrow
  <2>3. PICK pc \in {"retry", "dead", "error"} : goto(w, pc)
    BY <1>13 DEF CommitThenThrow, afterThrow, catchPc
  <2>4. budget' \in [FaultKinds -> Nat]
    BY <1>13, SpendTyped DEF CommitThenThrow, FaultKinds
  <2> QED
    BY <1>1, <1>13, <2>1, <2>2, <2>3, <2>4, GotoTyped DEF CommitThenThrow, WorkerPcs, HoldingPcs
<1>14. CASE CrashWorker(w)
  <2>1. StoreStep
    BY <1>14, RollbackTyped DEF CrashWorker
  <2>2. budget' \in [FaultKinds -> Nat]
    BY <1>14, SpendTyped DEF CrashWorker, FaultKinds
  <2> QED
    BY <1>14, <2>1, <2>2, StopTyped, QueueIdle DEF CrashWorker
<1> QED
  BY <1>2, <1>3, <1>4, <1>5, <1>6, <1>7, <1>8, <1>9, <1>10, <1>11, <1>12, <1>13, <1>14
  DEF WorkerStep, WorkerFault

-----------------------------------------------------------------------------
(* A step of one publisher: its new record has to be typed and its references  *)
(* valid; the queue may have gained a job of a row that exists.                *)
LEMMA PublisherMoves ==
    ASSUME Typed, StoreStep, NEW p \in Publishers, NEW to,
           to \in [pc : PublisherPcs, stale : SUBSET Snapshots, batch : SUBSET Jobs, item : Jobs],
           \A j \in to.batch : j.row \in DOMAIN outbox,
           to.pc \in {"unpublish", "mark", "count"} => to.item.row \in DOMAIN outbox,
           to.pc = "add" => to.batch # {},
           publisher' = [publisher EXCEPT ![p] = to],
           budget' \in [FaultKinds -> Nat], QueueTypeOK', QueueRefs(DOMAIN outbox)',
           UNCHANGED <<dispatcherVars, replaying>>
    PROVE  Typed'
<1>1. PublisherTypeOK'
  BY TypedParts DEF PublisherTypeOK
<1>2. PublisherRefs(DOMAIN outbox)'
  BY TypedParts DEF PublisherTypeOK, PublisherRefs, StoreStep, Extends
<1> QED
  BY <1>1, <1>2, TypedParts, TypedPartsPrime, DispatcherIdle DEF StoreStep, FaultTypeOK

LEMMA PublisherRecord ==
    ASSUME Typed, NEW p \in Publishers
    PROVE  /\ publisher \in [Publishers -> [pc : PublisherPcs, stale : SUBSET Snapshots,
                                            batch : SUBSET Jobs, item : Jobs]]
           /\ publisher[p] \in [pc : PublisherPcs, stale : SUBSET Snapshots,
                                batch : SUBSET Jobs, item : Jobs]
           /\ \A j \in publisher[p].batch : j.row \in DOMAIN outbox
           /\ publisher[p].pc \in {"unpublish", "mark", "count"}
                 => publisher[p].item.row \in DOMAIN outbox
           /\ publisher[p].pc = "add" => publisher[p].batch # {}
           /\ NoJob \in Jobs
           /\ budget \in [FaultKinds -> Nat]
  BY TypedParts DEF PublisherTypeOK, PublisherRefs, NoJob, Jobs, FaultTypeOK

LEMMA JobIdTyped ==
    ASSUME Typed, NEW r \in DOMAIN outbox
    PROVE  jobId(r) \in Jobs /\ jobId(r).row = r
  BY RowsOK DEF Typed, TypeOK, StoreTypeOK, jobId, Jobs, OutboxRow

(* Rows are left to publish only if one of them is the oldest.                 *)
LEMMA OldestExists ==
    ASSUME Typed, DueRows # {}
    PROVE  oldestOf(DueRows) # {}
<1>1. DueRows \in SUBSET Nat
  BY RowsOK DEF DueRows, Typed, TypeOK, StoreTypeOK
<1>2. PICK m \in DueRows : \A n \in DueRows : m <= n
  BY <1>1, LeastNat
<1>3. {q \in DueRows : q < m} = {}
  <2>1. \A q \in DueRows : ~(q < m)
    BY <1>1, <1>2
  <2> QED BY <2>1
<1>4. Cardinality({q \in DueRows : q < m}) = 0
  BY <1>3, FS_EmptySet
<1> QED
  BY <1>2, <1>4, TakeAssumption DEF oldestOf

LEMMA AddTyped ==
    ASSUME Typed, StoreStep, NEW j \in Jobs, j.row \in DOMAIN outbox, add(j)
    PROVE  QueueTypeOK' /\ QueueRefs(DOMAIN outbox)'
  BY TypedParts DEF QueueTypeOK, QueueRefs, add, StoreStep, Extends

LEMMA PublisherTyped ==
    ASSUME Typed, NEW p \in Publishers,
           BeginMaintenance(p) \/ PublisherStep(p) \/ PublisherFault(p), UNCHANGED replaying
    PROVE  Typed'
<1> DEFINE me == publisher[p]
<1> USE DEF pubAt
<1>1. /\ publisher \in [Publishers -> [pc : PublisherPcs, stale : SUBSET Snapshots,
                                       batch : SUBSET Jobs, item : Jobs]]
      /\ budget \in [FaultKinds -> Nat]
      /\ NoJob \in Jobs
      /\ \A j \in me.batch : j.row \in DOMAIN outbox
  BY PublisherRecord
<1>2. CASE BeginMaintenance(p)
  <2>1. PICK T \in anyOf(StaleDeliveries) :
          publisher' = [publisher EXCEPT ![p].pc = "stale",
              ![p].stale = {[delivery |-> d, resets |-> delivery[d].resets,
                             attempts |-> delivery[d].attempts] : d \in T}]
    BY <1>2 DEF BeginMaintenance
  <2> DEFINE snaps == {[delivery |-> d, resets |-> delivery[d].resets,
                        attempts |-> delivery[d].attempts] : d \in T}
             to == [me EXCEPT !.pc = "stale", !.stale = snaps]
  <2>2. T \in SUBSET Deliveries
    BY DEF anyOf, StaleDeliveries
  <2>3. snaps \in SUBSET Snapshots
    BY <2>2 DEF Snapshots, Typed, TypeOK, StoreTypeOK, DeliveryRow
  <2>4. publisher' = [publisher EXCEPT ![p] = to]
    BY <1>1, <2>1
  <2>5. StoreStep /\ QueueTypeOK' /\ QueueRefs(DOMAIN outbox)'
    BY <1>2, UnchangedStore, QueueIdle DEF BeginMaintenance
  <2>6. /\ to \in [pc : PublisherPcs, stale : SUBSET Snapshots, batch : SUBSET Jobs, item : Jobs]
        /\ to.pc = "stale" /\ to.batch = me.batch
    BY <1>1, <2>3 DEF PublisherPcs
  <2> HIDE DEF to
  <2> QED BY <1>1, <1>2, <2>4, <2>5, <2>6, PublisherMoves DEF BeginMaintenance
<1>3. CASE RecoverStale(p)
  <2>1. PICK s \in me.stale :
          recoverStale(s) /\ publisher' = [publisher EXCEPT ![p].stale = @ \ {s}]
    BY <1>3 DEF RecoverStale
  <2> DEFINE to == [me EXCEPT !.stale = @ \ {s}]
  <2>2. StoreStep
    BY <1>1, <2>1, RecoverTyped
  <2>3. QueueTypeOK' /\ QueueRefs(DOMAIN outbox)'
    BY <1>3, <2>2, QueueIdle DEF RecoverStale
  <2>4. /\ to \in [pc : PublisherPcs, stale : SUBSET Snapshots, batch : SUBSET Jobs, item : Jobs]
        /\ to.pc = "stale" /\ to.batch = me.batch
        /\ publisher' = [publisher EXCEPT ![p] = to]
    BY <1>1, <1>3, <2>1, ZenonT(40) DEF RecoverStale
  <2> HIDE DEF to
  <2> QED BY <1>1, <1>3, <2>2, <2>3, <2>4, PublisherMoves DEF RecoverStale
<1>4. CASE FindStranded(p)
  <2>1. PICK T \in anyOf(StrandedCandidates) :
          publisher' = [publisher EXCEPT ![p].pc = IF T = {} THEN "read" ELSE "inspect",
                                         ![p].batch = {jobId(r) : r \in T}]
    BY <1>4 DEF FindStranded
  <2> DEFINE jobs == {jobId(r) : r \in T}
             to == [me EXCEPT !.pc = IF T = {} THEN "read" ELSE "inspect", !.batch = jobs]
  <2>2. T \in SUBSET DOMAIN outbox
    BY DEF anyOf, StrandedCandidates
  <2>3. jobs \in SUBSET Jobs /\ \A j \in jobs : j.row \in DOMAIN outbox
    BY <2>2, JobIdTyped
  <2>4. StoreStep /\ QueueTypeOK' /\ QueueRefs(DOMAIN outbox)'
    BY <1>4, UnchangedStore, QueueIdle DEF FindStranded
  <2>5. /\ to \in [pc : PublisherPcs, stale : SUBSET Snapshots, batch : SUBSET Jobs, item : Jobs]
        /\ to.pc \in {"read", "inspect"} /\ to.batch = jobs
        /\ publisher' = [publisher EXCEPT ![p] = to]
    <3> HIDE DEF jobs
    <3> QED BY <1>1, <2>1, <2>3 DEF PublisherPcs, jobs
  <2> HIDE DEF to, jobs
  <2> QED BY <1>1, <1>4, <2>3, <2>4, <2>5, PublisherMoves DEF FindStranded
<1>5. CASE InspectJob(p)
  <2>1. PICK j \in me.batch, pc \in {"unpublish", "read", "inspect"}, item \in me.batch \cup {NoJob} :
          /\ publisher' = [publisher EXCEPT ![p].batch = me.batch \ {j}, ![p].pc = pc,
                                            ![p].item = item]
          /\ pc = "unpublish" => item = j
    BY <1>5 DEF InspectJob, afterStranded
  <2> DEFINE to == [me EXCEPT !.batch = me.batch \ {j}, !.pc = pc, !.item = item]
  <2>2. StoreStep /\ QueueTypeOK' /\ QueueRefs(DOMAIN outbox)'
    BY <1>5, UnchangedStore, QueueIdle DEF InspectJob
  <2>3. /\ to \in [pc : PublisherPcs, stale : SUBSET Snapshots, batch : SUBSET Jobs, item : Jobs]
        /\ to.pc = pc /\ to.batch \subseteq me.batch /\ to.item = item
        /\ publisher' = [publisher EXCEPT ![p] = to]
    BY <1>1, <2>1 DEF PublisherPcs
  <2>4. /\ \A k \in to.batch : k.row \in DOMAIN outbox
        /\ to.pc \in {"unpublish", "mark", "count"} => to.item.row \in DOMAIN outbox
        /\ to.pc # "add"
    <3> HIDE DEF to
    <3> QED BY <1>1, <2>1, <2>3
  <2> HIDE DEF to
  <2> QED BY <1>1, <1>5, <2>2, <2>3, <2>4, PublisherMoves DEF InspectJob
<1>6. CASE Unpublish(p)
  <2>1. PICK pc \in {"read", "inspect"} :
          publisher' = [publisher EXCEPT ![p].pc = pc, ![p].item = NoJob]
    BY <1>6 DEF Unpublish, afterStranded
  <2> DEFINE to == [me EXCEPT !.pc = pc, !.item = NoJob]
  <2>2. StoreStep
    BY <1>6, PublisherRecord, RowUpdateTyped DEF Unpublish
  <2>3. QueueTypeOK' /\ QueueRefs(DOMAIN outbox)'
    BY <1>6, <2>2, QueueIdle DEF Unpublish
  <2>4. /\ to \in [pc : PublisherPcs, stale : SUBSET Snapshots, batch : SUBSET Jobs, item : Jobs]
        /\ to.pc = pc /\ to.batch = me.batch
        /\ publisher' = [publisher EXCEPT ![p] = to]
    BY <1>1, <2>1 DEF PublisherPcs
  <2> HIDE DEF to
  <2> QED BY <1>1, <1>6, <2>2, <2>3, <2>4, PublisherMoves DEF Unpublish
<1>7. CASE ReadBatch(p)
  <2> DEFINE jobs == {jobId(r) : r \in oldestOf(DueRows)}
             to == [me EXCEPT !.pc = IF DueRows = {} THEN "idle" ELSE "add", !.batch = jobs]
  <2>1. oldestOf(DueRows) \in SUBSET DOMAIN outbox
    BY DEF oldestOf, DueRows
  <2>2. /\ jobs \in SUBSET Jobs /\ \A j \in jobs : j.row \in DOMAIN outbox
        /\ DueRows # {} => jobs # {}
    BY <2>1, JobIdTyped, OldestExists
  <2>3. StoreStep /\ QueueTypeOK' /\ QueueRefs(DOMAIN outbox)'
    BY <1>7, UnchangedStore, QueueIdle DEF ReadBatch
  <2>4. publisher' = [publisher EXCEPT ![p] = to]
    BY <1>1, <1>7 DEF ReadBatch
  <2>5. /\ to \in [pc : PublisherPcs, stale : SUBSET Snapshots, batch : SUBSET Jobs, item : Jobs]
        /\ to.pc \in {"idle", "add"} /\ to.batch = jobs
        /\ to.pc = "add" => DueRows # {}
    <3> HIDE DEF jobs
    <3> QED BY <1>1, <2>2 DEF PublisherPcs
  <2> HIDE DEF to, jobs
  <2> QED BY <1>1, <1>7, <2>2, <2>3, <2>4, <2>5, PublisherMoves DEF ReadBatch
<1>8. CASE AddJob(p) \/ AddThrows(p)
  <2>1. nextItem(p) \in me.batch
    BY <1>8, PublisherRecord, NextItem DEF AddJob, AddThrows
  <2>2. nextItem(p) \in Jobs /\ nextItem(p).row \in DOMAIN outbox
    BY <1>1, <2>1
  <2>3. PICK pc \in {"mark", "count"} : startItem(p, pc)
    BY <1>8 DEF AddJob, AddThrows
  <2> DEFINE to == [me EXCEPT !.pc = pc, !.item = nextItem(p), !.batch = @ \ {nextItem(p)}]
  <2>4. StoreStep
    BY <1>8, UnchangedStore DEF AddJob, AddThrows
  <2>5. QueueTypeOK' /\ QueueRefs(DOMAIN outbox)'
    BY <1>8, <2>2, <2>4, AddTyped, QueueIdle DEF AddJob, AddThrows
  <2>6. budget' \in [FaultKinds -> Nat]
    BY <1>1, <1>8, SpendTyped DEF AddJob, AddThrows, FaultKinds
  <2>7. /\ to \in [pc : PublisherPcs, stale : SUBSET Snapshots, batch : SUBSET Jobs, item : Jobs]
        /\ to.pc = pc /\ to.batch \subseteq me.batch /\ to.item = nextItem(p)
        /\ publisher' = [publisher EXCEPT ![p] = to]
    BY <1>1, <2>2, <2>3 DEF PublisherPcs, startItem
  <2> HIDE DEF to
  <2> QED BY <1>1, <1>8, <2>2, <2>4, <2>5, <2>6, <2>7, PublisherMoves DEF AddJob, AddThrows
<1>9. CASE MarkPublished(p)
  <2>1. PICK pc \in {"idle", "add"} :
          /\ publisher' = [publisher EXCEPT ![p].item = NoJob, ![p].pc = pc]
          /\ pc = "add" => me.batch # {}
    BY <1>9 DEF MarkPublished
  <2> DEFINE to == [me EXCEPT !.item = NoJob, !.pc = pc]
  <2>2. StoreStep
    BY <1>9, PublisherRecord, RowUpdateTyped DEF MarkPublished
  <2>3. QueueTypeOK' /\ QueueRefs(DOMAIN outbox)'
    BY <1>9, <2>2, QueueIdle DEF MarkPublished
  <2>4. /\ to \in [pc : PublisherPcs, stale : SUBSET Snapshots, batch : SUBSET Jobs, item : Jobs]
        /\ to.pc = pc /\ to.batch = me.batch
        /\ publisher' = [publisher EXCEPT ![p] = to]
    BY <1>1, <2>1 DEF PublisherPcs
  <2>5. budget' \in [FaultKinds -> Nat] /\ UNCHANGED <<dispatcherVars, replaying>>
    BY <1>1, <1>9 DEF MarkPublished
  <2> HIDE DEF to
  <2>6. /\ \A j \in to.batch : j.row \in DOMAIN outbox
        /\ to.pc \notin {"unpublish", "mark", "count"}
        /\ to.pc = "add" => to.batch # {}
    BY <1>1, <2>1, <2>4
  <2> QED BY <2>2, <2>3, <2>4, <2>5, <2>6, PublisherMoves
<1>10. CASE CountFailure(p) \/ Abort(p)
  <2>1. StoreStep
    BY <1>10, PublisherRecord, RowUpdateTyped, UnchangedStore DEF CountFailure, Abort
  <2>2. QueueTypeOK' /\ QueueRefs(DOMAIN outbox)'
    BY <1>10, <2>1, QueueIdle DEF CountFailure, Abort
  <2>3. budget' \in [FaultKinds -> Nat]
    BY <1>1, <1>10, SpendTyped DEF CountFailure, Abort, FaultKinds
  <2>4. /\ Idle \in [pc : PublisherPcs, stale : SUBSET Snapshots, batch : SUBSET Jobs, item : Jobs]
        /\ Idle.pc = "idle" /\ Idle.batch = {}
    BY <1>1 DEF Idle, PublisherPcs
  <2> QED BY <1>10, <2>1, <2>2, <2>3, <2>4, PublisherMoves DEF CountFailure, Abort
<1>11. CASE MarkThrows(p)
  <2> DEFINE to == [me EXCEPT !.pc = "count"]
  <2>1. StoreStep /\ QueueTypeOK' /\ QueueRefs(DOMAIN outbox)'
    BY <1>11, UnchangedStore, QueueIdle, PublisherRecord, RowUpdateTyped DEF MarkThrows, pubAt
  <2>2. budget' \in [FaultKinds -> Nat]
    BY <1>11, SpendTyped DEF MarkThrows, FaultKinds
  <2>3. /\ to \in [pc : PublisherPcs, stale : SUBSET Snapshots, batch : SUBSET Jobs, item : Jobs]
        /\ to.pc = "count" /\ to.batch = me.batch /\ to.item = me.item
        /\ publisher' = [publisher EXCEPT ![p] = to]
        /\ me.item.row \in DOMAIN outbox
    BY <1>1, <1>11, PublisherRecord DEF PublisherPcs, MarkThrows
  <2> HIDE DEF to
  <2> QED BY <1>1, <1>11, <2>1, <2>2, <2>3, PublisherMoves DEF MarkThrows
<1> QED
  BY <1>2, <1>3, <1>4, <1>5, <1>6, <1>7, <1>8, <1>9, <1>10, <1>11
  DEF PublisherStep, PublisherFault

-----------------------------------------------------------------------------
(* The steps of nobody's program: requests, time and the queue's own.          *)
LEMMA ApiTyped ==
    ASSUME Typed, Api
    PROVE  Typed'
<1>1. budget \in [FaultKinds -> Nat]
  BY TypedParts DEF FaultTypeOK
<1>2. ASSUME NEW e \in Events, Ingest(e) PROVE Typed'
  <2>1. StoreStep
    BY <1>2, CreateTyped DEF Ingest
  <2> QED BY <1>2, <2>1, TypedParts, TypedPartsPrime, QueueIdle, DispatcherIdle, PublisherIdle
          DEF Ingest, StoreStep, FaultTypeOK
<1>3. ASSUME NEW d \in Deliveries, ReplayCheck(d) PROVE Typed'
  <2>1. StoreStep
    BY <1>3, UnchangedStore DEF ReplayCheck
  <2>2. budget' \in [FaultKinds -> Nat]
    BY <1>3, SpendTyped DEF ReplayCheck, FaultKinds
  <2> QED BY <1>3, <2>1, <2>2, TypedParts, TypedPartsPrime, QueueIdle, DispatcherIdle, PublisherIdle
          DEF ReplayCheck, StoreStep, FaultTypeOK
<1>4. ASSUME NEW d \in Deliveries, ReplayReset(d) PROVE Typed'
  <2>1. StoreStep
    BY <1>4, ResetTyped DEF ReplayReset
  <2> QED BY <1>4, <2>1, TypedParts, TypedPartsPrime, QueueIdle, DispatcherIdle, PublisherIdle
          DEF ReplayReset, StoreStep, FaultTypeOK
<1>5. ASSUME NEW p \in Endpoints, ToggleEndpoint(p) PROVE Typed'
  <2>1. StoreStep
    BY <1>5, SetActiveTyped DEF ToggleEndpoint
  <2>2. budget' \in [FaultKinds -> Nat]
    BY <1>5, SpendTyped DEF ToggleEndpoint, FaultKinds
  <2> QED BY <1>5, <2>1, <2>2, TypedParts, TypedPartsPrime, QueueIdle, DispatcherIdle, PublisherIdle
          DEF ToggleEndpoint, StoreStep, FaultTypeOK
<1> QED
  BY <1>2, <1>3, <1>4, <1>5 DEF Api

LEMMA TimeTyped ==
    ASSUME Typed, Time
    PROVE  Typed'
<1>1. budget \in [FaultKinds -> Nat]
  BY TypedParts DEF FaultTypeOK
<1>2. StoreStep /\ budget' \in [FaultKinds -> Nat]
  BY <1>1, RowUpdateTyped, AgeTyped, SpendTyped DEF Time, RowDue, Age, AgeHeld, FaultKinds
<1>3. UNCHANGED <<queueVars, dispatcherVars, publisher, replaying>>
  BY DEF Time, Age, AgeHeld
<1> QED
  BY <1>2, <1>3, TypedParts, TypedPartsPrime, QueueIdle, DispatcherIdle, PublisherIdle
  DEF StoreStep, FaultTypeOK

LEMMA QueueFaultTyped ==
    ASSUME Typed, QueueFault
    PROVE  Typed'
<1>1. budget \in [FaultKinds -> Nat]
  BY TypedParts DEF FaultTypeOK
<1>2. StoreStep
  BY UnchangedStore DEF QueueFault, StallOrphan, StallLive
<1>3. budget' \in [FaultKinds -> Nat]
  BY <1>1, SpendTyped DEF QueueFault, Purge, LoseJob, StallOrphan, StallLive, FaultKinds
<1>4. UNCHANGED <<storeVars, dispatcherVars, publisher, replaying>>
  BY DEF QueueFault, StallOrphan, StallLive
<1>5. QueueTypeOK' /\ QueueRefs(DOMAIN outbox)'
  <2> USE DEF QueueTypeOK, QueueRefs
  <2>1. CASE Purge
    BY <1>4, <2>1, TypedParts DEF Purge, storeVars
  <2>2. CASE LoseJob
    BY <1>4, <2>2, TypedParts DEF LoseJob, storeVars
  <2>3. CASE StallOrphan \/ StallLive
    <3>1. PICK x \in running : stall(x[1], x[2])
      BY <2>3 DEF StallOrphan, StallLive
    <3>2. x \in Jobs \X Workers /\ x[1] \in Jobs /\ x[1].row \in DOMAIN outbox
      BY <3>1, TypedParts
    <3> QED BY <1>4, <3>1, <3>2, TypedParts DEF stall, storeVars
  <2> QED BY <2>1, <2>2, <2>3 DEF QueueFault
<1> QED
  BY <1>2, <1>3, <1>4, <1>5, TypedParts, TypedPartsPrime, DispatcherIdle, PublisherIdle
  DEF StoreStep, FaultTypeOK

LEMMA NextTyped == Typed /\ [Next]_vars => Typed'
<1> SUFFICES ASSUME Typed, [Next]_vars PROVE Typed'
  OBVIOUS
<1>1. CASE Next
  BY <1>1, ApiTyped, TimeTyped, QueueFaultTyped, WorkerTyped, PublisherTyped DEF Next
<1>2. CASE UNCHANGED vars
  BY <1>2, UnchangedStore, TypedParts, TypedPartsPrime, QueueIdle, DispatcherIdle, PublisherIdle
  DEF vars, StoreStep, FaultTypeOK
<1> QED
  BY <1>1, <1>2

LEMMA AlwaysTyped == Spec => []Typed
  BY InitTyped, NextTyped, PTL DEF Spec

(* TypeCorrect: the tables, the queue, the workers and the publishers keep     *)
(* their types.  That needs RefsOK: a worker and a publisher read the row that *)
(* their job or snapshot refers to.                                            *)
THEOREM TypeCorrect == Spec => []TypeOK
<1>1. Typed => TypeOK
  BY DEF Typed
<1> QED
  BY <1>1, AlwaysTyped, PTL

-----------------------------------------------------------------------------
(* SingleSender is not inductive: that a claim cannot succeed while another    *)
(* worker holds the delivery depends on the attempt numbers of the rows.       *)

(* The exceptions SingleSender makes.                                          *)
Clean(d) == NotReplayed(d) /\ Spent("slow") = 0

Held(d) == \E w \in Workers : Holds(w, d)

(* No row asks for more than the next attempt, and none for the next attempt   *)
(* while the current one is under way.                                         *)
RowsBehind(d) ==
    \A r \in DOMAIN outbox : outbox[r].delivery = d =>
        /\ outbox[r].attempt <= delivery[d].attempts + 1
        /\ delivery[d].status = "PROCESSING" \/ Held(d)
              => outbox[r].attempt <= delivery[d].attempts

(* A worker that holds the delivery is at its current attempt, and alone.      *)
HolderCurrent(d) ==
    \A v \in Workers : Holds(v, d) =>
        /\ expectedAttempt(v) = delivery[d].attempts
        /\ \A w \in Workers : Holds(w, d) => v = w

(* Only an abandoned claim is old, and a snapshot of the recovery is either of *)
(* an abandoned claim or of an earlier one.                                    *)
OldAbandoned(d) ==
    /\ delivery[d].aged => ~Held(d)
    /\ \A p \in Publishers : \A s \in publisher[p].stale :
          s.delivery = d => /\ s.attempts <= delivery[d].attempts
                            /\ s.attempts = delivery[d].attempts => ~Held(d)

SenderInv(d) == Clean(d) => RowsBehind(d) /\ HolderCurrent(d) /\ OldAbandoned(d)

(* Before its event is accepted a delivery has no rows and no replay request.  *)
Unborn ==
    \A d \in Deliveries : event[d[1]] = "NONE" =>
        /\ delivery[d].status = "NONE" /\ d \notin replaying
        /\ \A r \in DOMAIN outbox : outbox[r].delivery # d

BudgetOK == \A kind \in FaultKinds : budget[kind] <= Budget[kind]

SenderOK == Unborn /\ BudgetOK /\ \A d \in Deliveries : SenderInv(d)

LEMMA SenderSingle == SenderOK => SingleSender
  BY DEF SenderOK, SenderInv, Clean, HolderCurrent, SingleSender

LEMMA InitSender == Init => SenderOK
  BY BudgetAssumption DEF Init, SenderOK, Unborn, BudgetOK, SenderInv, RowsBehind, HolderCurrent,
     OldAbandoned, Held, Holds, HoldingPcs, StoreInit, DispatcherInit, PublisherInit, FaultInit, Idle

-----------------------------------------------------------------------------
(* What most steps do to a delivery, as far as SenderInv is concerned.         *)
NoMoreRows(d) ==
    \A r \in DOMAIN outbox' : outbox'[r].delivery = d =>
        \E q \in DOMAIN outbox : outbox[q].delivery = d /\ outbox'[r].attempt = outbox[q].attempt

NoMoreHolders(d) ==
    \A w \in Workers : Holds(w, d)' => Holds(w, d) /\ expectedAttempt(w)' = expectedAttempt(w)

NoMoreSnapshots(d) ==
    \A p \in Publishers : \A s \in publisher'[p].stale :
        s.delivery = d => \/ s \in publisher[p].stale
                          \/ s.attempts = delivery[d].attempts /\ ~Held(d)

Calm(d) ==
    /\ Clean(d)' => Clean(d)
    /\ delivery'[d].attempts = delivery[d].attempts
    /\ delivery'[d].status = "PROCESSING" => delivery[d].status = "PROCESSING"
    /\ delivery'[d].aged => delivery[d].aged \/ ~Held(d)
    /\ NoMoreRows(d) /\ NoMoreHolders(d) /\ NoMoreSnapshots(d)

LEMMA CalmStep ==
    ASSUME Typed, NEW d \in Deliveries, SenderInv(d), Calm(d)
    PROVE  SenderInv(d)'
<1> SUFFICES ASSUME Clean(d)' PROVE RowsBehind(d)' /\ HolderCurrent(d)' /\ OldAbandoned(d)'
  BY DEF SenderInv
<1>1. /\ RowsBehind(d) /\ HolderCurrent(d) /\ OldAbandoned(d)
      /\ delivery[d].attempts \in Nat
      /\ \A r \in DOMAIN outbox : outbox[r].attempt \in Nat
      /\ \A p \in Publishers : \A s \in publisher[p].stale : s.attempts \in Nat
  <2>1. RowsBehind(d) /\ HolderCurrent(d) /\ OldAbandoned(d)
    BY DEF Calm, SenderInv
  <2>2. delivery[d].attempts \in Nat
    BY TypedParts DEF StoreTypeOK, DeliveryRow
  <2>3. \A r \in DOMAIN outbox : outbox[r].attempt \in Nat
    BY TypedParts, RowsOK DEF StoreTypeOK, OutboxRow
  <2>4. \A p \in Publishers : \A s \in publisher[p].stale : s.attempts \in Nat
    BY PublisherRecord DEF Snapshots
  <2> QED BY <2>1, <2>2, <2>3, <2>4
<1>2. Held(d)' => Held(d)
  BY DEF Calm, NoMoreHolders, Held
<1>3. RowsBehind(d)'
  BY <1>1, <1>2 DEF RowsBehind, Calm, NoMoreRows
<1>4. HolderCurrent(d)'
  BY <1>1 DEF HolderCurrent, Calm, NoMoreHolders
<1>5. OldAbandoned(d)'
  BY <1>1, <1>2 DEF OldAbandoned, Calm, NoMoreSnapshots
<1> QED
  BY <1>3, <1>4, <1>5

LEMMA BudgetStep ==
    ASSUME Typed, BudgetOK, UNCHANGED budget \/ \E kind \in FaultKinds : Spend(kind)
    PROVE  /\ BudgetOK'
           /\ Spent("slow")' = 0 => Spent("slow") = 0
<1>1. /\ budget \in [FaultKinds -> Nat] /\ Budget \in [FaultKinds -> Nat] /\ "slow" \in FaultKinds
  BY BudgetAssumption DEF Typed, TypeOK, FaultTypeOK, FaultKinds
<1>2. \A kind \in FaultKinds : budget'[kind] \in Int /\ budget'[kind] <= budget[kind]
  BY <1>1 DEF Spend
<1>3. BudgetOK'
  BY <1>1, <1>2 DEF BudgetOK
<1> QED
  BY <1>1, <1>2, <1>3 DEF BudgetOK, Spent

LEMMA SlowSpent ==
    ASSUME Typed, BudgetOK, Spend("slow")
    PROVE  Spent("slow")' # 0
<1>1. /\ budget \in [FaultKinds -> Nat] /\ Budget \in [FaultKinds -> Nat] /\ "slow" \in FaultKinds
  BY BudgetAssumption DEF Typed, TypeOK, FaultTypeOK, FaultKinds
<1> QED
  BY <1>1 DEF BudgetOK, Spent, Spend

LEMMA RowsSame ==
    ASSUME Typed, StoreStep, DOMAIN outbox' = DOMAIN outbox, NEW d \in Deliveries
    PROVE  NoMoreRows(d)
  BY DEF StoreStep, Extends, NoMoreRows

(* A worker moves on, another step leaves all workers where they are: nobody   *)
(* comes to hold d who did not hold it before.                                 *)
LEMMA HoldersSame ==
    ASSUME Typed, StoreStep, UNCHANGED worker, NEW d \in Deliveries
    PROVE  NoMoreHolders(d)
<1>1. \A w \in Workers : worker[w].pc \in HoldingPcs => worker[w].job.row \in DOMAIN outbox
  BY TypedParts DEF WorkerRefs, HoldingPcs
<1> QED
  BY <1>1 DEF NoMoreHolders, Holds, deliveryId, expectedAttempt, StoreStep, Extends

LEMMA HoldersMove ==
    ASSUME Typed, StoreStep, NEW w \in Workers, NEW to, NEW d \in Deliveries,
           worker' = [worker EXCEPT ![w] = to],
           to.pc \in HoldingPcs => /\ to.job = worker[w].job
                                   /\ worker[w].pc # "idle"
                                   /\ worker[w].pc \in HoldingPcs \/ deliveryId(w) # d
    PROVE  NoMoreHolders(d)
<1>1. \A v \in Workers : worker[v].pc # "idle" => worker[v].job.row \in DOMAIN outbox
  BY TypedParts DEF WorkerRefs
<1>2. \A v \in Workers : worker'[v] = IF v = w THEN to ELSE worker[v]
  BY TypedParts DEF DispatcherTypeOK
<1> SUFFICES ASSUME NEW v \in Workers, Holds(v, d)'
             PROVE  Holds(v, d) /\ expectedAttempt(v)' = expectedAttempt(v)
  BY DEF NoMoreHolders
<1>3. worker'[v].pc \in HoldingPcs /\ outbox'[worker'[v].job.row].delivery = d
  BY DEF Holds, deliveryId
<1>4. worker'[v].job = worker[v].job /\ worker[v].job.row \in DOMAIN outbox
  BY <1>1, <1>2, <1>3 DEF HoldingPcs
<1>5. /\ deliveryId(v) = d
      /\ expectedAttempt(v)' = expectedAttempt(v)
  BY <1>3, <1>4 DEF deliveryId, expectedAttempt, StoreStep, Extends
<1>6. worker[v].pc \in HoldingPcs
  BY <1>2, <1>3, <1>5
<1> QED
  BY <1>5, <1>6 DEF Holds

LEMMA GotoMoves ==
    ASSUME Typed, StoreStep, NEW w \in Workers, worker[w].pc # "idle", NEW pc, goto(w, pc),
           NEW d \in Deliveries,
           pc \in HoldingPcs => worker[w].pc \in HoldingPcs \/ deliveryId(w) # d
    PROVE  NoMoreHolders(d)
<1> DEFINE to == [worker[w] EXCEPT !.pc = pc]
<1>1. worker' = [worker EXCEPT ![w] = to] /\ to.pc = pc /\ to.job = worker[w].job
  BY TypedParts DEF goto, DispatcherTypeOK
<1> HIDE DEF to
<1> QED
  BY <1>1, HoldersMove

LEMMA StopMoves ==
    ASSUME Typed, StoreStep, NEW w \in Workers, NEW d \in Deliveries,
           worker' = [worker EXCEPT ![w] = [pc |-> "idle", job |-> NoJob]]
    PROVE  NoMoreHolders(d)
<1>1. [pc |-> "idle", job |-> NoJob].pc \notin HoldingPcs
  BY DEF HoldingPcs
<1> QED
  BY <1>1, HoldersMove

-----------------------------------------------------------------------------
(* A step that writes no delivery, no event and no new row.                    *)
LEMMA QuietSender ==
    ASSUME Typed, SenderOK, StoreStep, UNCHANGED <<delivery, event>>,
           DOMAIN outbox' = DOMAIN outbox,
           UNCHANGED budget \/ \E kind \in FaultKinds : Spend(kind),
           \A d \in replaying' : d \in replaying \/ delivery[d].status # "NONE",
           \A d \in Deliveries : NoMoreHolders(d) /\ NoMoreSnapshots(d)
    PROVE  SenderOK'
<1>1. BudgetOK' /\ (Spent("slow")' = 0 => Spent("slow") = 0)
  BY BudgetStep DEF SenderOK
<1>2. Unborn'
  BY RowsSame DEF SenderOK, Unborn, NoMoreRows
<1>3. ASSUME NEW d \in Deliveries PROVE SenderInv(d)'
  <2>1. Calm(d)
    BY <1>1, RowsSame DEF Calm, Clean, NotReplayed
  <2> QED BY <2>1, CalmStep DEF SenderOK
<1> QED
  BY <1>1, <1>2, <1>3 DEF SenderOK

(* A step that writes one delivery of an accepted event.                       *)
LEMMA OneSender ==
    ASSUME Typed, SenderOK, StoreStep, NEW c \in Deliveries, event[c[1]] # "NONE",
           \A d \in Deliveries : d # c => delivery'[d] = delivery[d],
           \A e \in Events : event'[e] = "NONE" => event[e] = "NONE",
           \A r \in DOMAIN outbox' : r \in DOMAIN outbox \/ outbox'[r].delivery = c,
           \A d \in Deliveries : d # c => NoMoreHolders(d) /\ NoMoreSnapshots(d),
           UNCHANGED budget \/ \E kind \in FaultKinds : Spend(kind),
           replaying' \subseteq replaying, SenderInv(c)', event'[c[1]] # "NONE"
    PROVE  SenderOK'
<1>1. BudgetOK' /\ (Spent("slow")' = 0 => Spent("slow") = 0)
  BY BudgetStep DEF SenderOK
<1>2. ASSUME NEW d \in Deliveries, d # c PROVE NoMoreRows(d)
  BY <1>2 DEF StoreStep, Extends, NoMoreRows
<1>3. Unborn'
  BY <1>2 DEF SenderOK, Unborn, NoMoreRows, Deliveries
<1>4. ASSUME NEW d \in Deliveries PROVE SenderInv(d)'
  <2>1. CASE d = c
    BY <2>1
  <2>2. CASE d # c
    <3>1. Calm(d)
      BY <1>1, <1>2, <2>2 DEF Calm, Clean, NotReplayed
    <3> QED BY <3>1, CalmStep DEF SenderOK
  <2> QED BY <2>1, <2>2
<1> QED
  BY <1>1, <1>3, <1>4 DEF SenderOK

(* A worker runs a job of a delivery that exists.                              *)
LEMMA WorkerBorn ==
    ASSUME Typed, SenderOK, NEW w \in Workers, worker[w].pc # "idle"
    PROVE  event[deliveryId(w)[1]] # "NONE"
  BY JobTyped DEF SenderOK, Unborn, deliveryId

(* A step that writes delivery c alone, and is calm for it too.                *)
LEMMA CalmSender ==
    ASSUME Typed, SenderOK, StoreStep, NEW c \in Deliveries, event[c[1]] # "NONE",
           \A d \in Deliveries : d # c => delivery'[d] = delivery[d],
           \A e \in Events : event'[e] = "NONE" => event[e] = "NONE",
           event'[c[1]] # "NONE",
           \A r \in DOMAIN outbox' : r \in DOMAIN outbox \/ outbox'[r].delivery = c,
           \A d \in Deliveries : NoMoreHolders(d) /\ NoMoreSnapshots(d),
           UNCHANGED budget \/ \E kind \in FaultKinds : Spend(kind),
           replaying' \subseteq replaying, NoMoreRows(c),
           delivery'[c].attempts = delivery[c].attempts,
           delivery'[c].resets = delivery[c].resets,
           delivery'[c].status = "PROCESSING" => delivery[c].status = "PROCESSING",
           delivery'[c].aged => delivery[c].aged \/ ~Held(c)
    PROVE  SenderOK'
<1>1. Spent("slow")' = 0 => Spent("slow") = 0
  BY BudgetStep DEF SenderOK
<1>2. Calm(c)
  BY <1>1 DEF Calm, Clean, NotReplayed
<1>3. SenderInv(c)'
  BY <1>2, CalmStep DEF SenderOK
<1> QED
  BY <1>3, OneSender

LEMMA SnapshotsSame ==
    ASSUME UNCHANGED publisher, NEW d \in Deliveries
    PROVE  NoMoreSnapshots(d)
  BY DEF NoMoreSnapshots

(* A claim: the row it works from asks for the next attempt, so nobody holds   *)
(* the delivery.                                                               *)
LEMMA ClaimSender ==
    ASSUME Typed, SenderOK, NEW w \in Workers, at(w, "claim"),
           claimForProcessing(deliveryId(w), expectedAttempt(w)),
           NEW pc \in {"send", "error"}, goto(w, pc),
           UNCHANGED budget \/ \E kind \in FaultKinds : Spend(kind),
           UNCHANGED <<publisher, replaying>>
    PROVE  SenderOK'
<1> DEFINE q == worker[w].job.row
<1>1. worker[w].pc = "claim"
  BY DEF at
<1>2. PICK c \in Deliveries, n \in Nat : c = deliveryId(w) /\ n = expectedAttempt(w)
  BY <1>1, JobTyped
<1>3. /\ worker[w].pc = "claim"
      /\ delivery[c].attempts = n - 1
      /\ delivery' = [delivery EXCEPT ![c].status = "PROCESSING",
                                      ![c].attempts = @ + 1, ![c].aged = FALSE]
      /\ event' = [event EXCEPT ![c[1]] = "PROCESSING"]
      /\ UNCHANGED outbox
  BY <1>1, <1>2 DEF claimForProcessing, claimable
<1>4. /\ c \in Deliveries /\ n \in Nat /\ q \in DOMAIN outbox
      /\ outbox[q].delivery = c /\ outbox[q].attempt = n
  BY <1>1, <1>2, JobTyped DEF deliveryId, expectedAttempt
<1>5. StoreStep
  BY <1>2, ClaimTyped
<1>6. event[c[1]] # "NONE" /\ c[1] \in Events
  BY <1>3, <1>2, WorkerBorn DEF Deliveries
<1>7. ASSUME NEW d \in Deliveries, d # c PROVE NoMoreHolders(d) /\ NoMoreSnapshots(d)
  <2>1. deliveryId(w) # d
    BY <1>2, <1>7
  <2> QED BY <1>3, <1>5, <2>1, GotoMoves, SnapshotsSame
<1>8. \A v \in Workers : /\ worker'[v].pc = IF v = w THEN pc ELSE worker[v].pc
                         /\ worker'[v].job = worker[v].job
  BY TypedParts DEF goto, DispatcherTypeOK
<1>9. \A v \in Workers : Holds(v, c)' => v = w \/ Holds(v, c)
  <2> QED BY <1>3, <1>8 DEF Holds, deliveryId
<1>10. expectedAttempt(w)' = n
  BY <1>2, <1>3, <1>8 DEF expectedAttempt
<1>11. /\ delivery[c] \in DeliveryRow /\ delivery[c].attempts \in Nat
      /\ delivery'[c].attempts = n /\ delivery'[c].status = "PROCESSING"
      /\ delivery'[c].aged = FALSE /\ delivery'[c].resets = delivery[c].resets
      /\ \A d \in Deliveries : d # c => delivery'[d] = delivery[d]
  BY <1>3, <1>4, TypedParts DEF StoreTypeOK, DeliveryRow
<1>12. SenderInv(c)'
  <2> SUFFICES ASSUME Clean(c)' PROVE RowsBehind(c)' /\ HolderCurrent(c)' /\ OldAbandoned(c)'
    BY DEF SenderInv
  <2>1. RowsBehind(c) /\ HolderCurrent(c) /\ OldAbandoned(c)
    BY <1>11, BudgetStep DEF SenderOK, SenderInv, Clean, NotReplayed
  <2>2. ~Held(c)
    BY <1>3, <1>4, <1>11, <2>1 DEF RowsBehind
  <2>3. \A v \in Workers : Holds(v, c)' => v = w
    BY <1>9, <2>2 DEF Held
  <2>4. \A r \in DOMAIN outbox : outbox[r].attempt \in Nat
    BY TypedParts, RowsOK DEF StoreTypeOK, OutboxRow
  <2>5. RowsBehind(c)'
    <3> QED BY <1>3, <1>4, <1>11, <2>1, <2>4 DEF RowsBehind
  <2>6. HolderCurrent(c)'
    <3> QED BY <1>10, <1>11, <2>3 DEF HolderCurrent
  <2>7. OldAbandoned(c)'
    <3>1. \A p \in Publishers : \A s \in publisher[p].stale :
              s.delivery = c => s.attempts \in Nat /\ s.attempts <= n - 1
      BY <1>3, <2>1, PublisherRecord DEF Snapshots, OldAbandoned
    <3>2. \A p \in Publishers : \A s \in publisher[p].stale :
              s.delivery = c => s.attempts <= n /\ s.attempts # n
      BY <1>2, <3>1
    <3> QED BY <1>11, <3>2 DEF OldAbandoned
  <2> QED BY <2>5, <2>6, <2>7
<1>13. event'[c[1]] = "PROCESSING" /\ \A e \in Events : event'[e] = "NONE" => event[e] = "NONE"
  BY <1>3, <1>6, TypedParts DEF StoreTypeOK
<1> QED
  BY <1>3, <1>4, <1>5, <1>6, <1>7, <1>11, <1>12, <1>13, OneSender

(* A retry: the worker was the only holder and gives the delivery up with it.  *)
LEMMA RetrySender ==
    ASSUME Typed, SenderOK, NEW w \in Workers, at(w, "retry"),
           markFailedAndSchedule(deliveryId(w), expectedAttempt(w) + 1),
           NEW pc \in {"done", "error"}, goto(w, pc),
           UNCHANGED budget \/ \E kind \in FaultKinds : Spend(kind),
           UNCHANGED <<publisher, replaying>>
    PROVE  SenderOK'
<1>1. worker[w].pc = "retry"
  BY DEF at
<1>2. PICK c \in Deliveries, n \in Nat : c = deliveryId(w) /\ n = expectedAttempt(w)
  BY <1>1, JobTyped
<1>3. /\ worker[w].pc = "retry" /\ UNCHANGED event
      /\ delivery' = [delivery EXCEPT ![c] = [delivery[c] EXCEPT !.status = "FAILED"]]
      /\ outbox' = Append(outbox, NewRow(c, n + 1, FALSE))
  BY <1>1, <1>2 DEF markFailedAndSchedule, reschedule
<1>4. n + 1 \in Nat
  BY <1>2
<1>5. StoreStep
  BY <1>2, <1>4, MarkFailedTyped
<1>6. event[c[1]] # "NONE"
  BY <1>3, <1>2, WorkerBorn
<1>7. ASSUME NEW d \in Deliveries PROVE NoMoreHolders(d) /\ NoMoreSnapshots(d)
  BY <1>3, <1>5, GotoMoves, SnapshotsSame DEF HoldingPcs
<1>8. /\ NewRow(c, n + 1, FALSE) \in OutboxRow
      /\ NewRow(c, n + 1, FALSE).delivery = c /\ NewRow(c, n + 1, FALSE).attempt = n + 1
  BY <1>4 DEF NewRow, OutboxRow
<1>9. \A r \in DOMAIN outbox' : \/ r \in DOMAIN outbox
                                \/ outbox'[r].delivery = c /\ outbox'[r].attempt = n + 1
  <2>1. outbox \in Seq(OutboxRow)
    BY TypedParts DEF StoreTypeOK
  <2> DEFINE row == NewRow(c, n + 1, FALSE)
  <2>2. row \in OutboxRow /\ row.delivery = c /\ row.attempt = n + 1 /\ outbox' = Append(outbox, row)
    BY <1>3, <1>8
  <2> HIDE DEF row
  <2>3. /\ DOMAIN outbox' = DOMAIN outbox \cup {Len(outbox) + 1}
        /\ outbox'[Len(outbox) + 1] = row
    BY <2>1, <2>2, AppendRow
  <2> QED BY <2>2, <2>3
<1>10. /\ delivery[c] \in DeliveryRow /\ delivery[c].attempts \in Nat
      /\ delivery'[c].attempts = delivery[c].attempts /\ delivery'[c].status = "FAILED"
      /\ delivery'[c].aged = delivery[c].aged /\ delivery'[c].resets = delivery[c].resets
      /\ \A d \in Deliveries : d # c => delivery'[d] = delivery[d]
  BY <1>3, <1>4, TypedParts DEF StoreTypeOK, DeliveryRow
<1>11. SenderInv(c)'
  <2> SUFFICES ASSUME Clean(c)' PROVE RowsBehind(c)' /\ HolderCurrent(c)' /\ OldAbandoned(c)'
    BY DEF SenderInv
  <2>1. RowsBehind(c) /\ HolderCurrent(c) /\ OldAbandoned(c)
    BY <1>10, BudgetStep DEF SenderOK, SenderInv, Clean, NotReplayed
  <2>2. Holds(w, c)
    BY <1>2, <1>3 DEF Holds, HoldingPcs
  <2>3. n = delivery[c].attempts /\ \A v \in Workers : Holds(v, c) => v = w
    BY <1>2, <2>1, <2>2 DEF HolderCurrent
  <2>4. ~Held(c)'
    <3>1. ~Holds(w, c)'
      BY <1>3, TypedParts DEF Holds, goto, HoldingPcs, DispatcherTypeOK
    <3>2. \A v \in Workers : Holds(v, c)' => Holds(v, c)
      BY <1>4, <1>7 DEF NoMoreHolders
    <3> QED BY <2>3, <3>1, <3>2 DEF Held
  <2>5. RowsBehind(c)'
    <3>1. \A r \in DOMAIN outbox : outbox[r].attempt \in Nat
      BY TypedParts, RowsOK DEF StoreTypeOK, OutboxRow
    <3> QED BY <1>5, <1>9, <1>10, <2>1, <2>3, <2>4, <3>1 DEF RowsBehind, StoreStep, Extends
  <2>6. HolderCurrent(c)'
    <3> QED BY <2>4 DEF HolderCurrent, Held
  <2>7. OldAbandoned(c)'
    <3> QED BY <1>10, <2>1, <2>4 DEF OldAbandoned
  <2> QED BY <2>5, <2>6, <2>7
<1> QED
  BY <1>3, <1>4, <1>5, <1>6, <1>7, <1>9, <1>10, <1>11, OneSender

(* A worker that commits the outcome it has prepared.                          *)
LEMMA CommitSender ==
    ASSUME Typed, SenderOK, NEW w \in Workers, worker[w].pc \in MarkingPcs,
           commitMark(w, deliveryId(w)), NEW pc, goto(w, pc),
           pc \in HoldingPcs => worker[w].pc \in HoldingPcs,
           UNCHANGED budget \/ \E kind \in FaultKinds : Spend(kind),
           UNCHANGED <<publisher, replaying>>
    PROVE  SenderOK'
<1>1. worker[w].pc # "idle"
  BY DEF MarkingPcs
<1>2. PICK c \in Deliveries : c = deliveryId(w)
  BY <1>1, JobTyped
<1>3. PICK t \in tx :
        /\ delivery' = [delivery EXCEPT ![c].status = t.status]
        /\ event' = [event EXCEPT ![c[1]] = t.event]
        /\ UNCHANGED outbox
  BY <1>2 DEF commitMark
<1>4. t.status # "PROCESSING" /\ t.event # "NONE"
  BY TypedParts DEF StoreTypeOK, OpenTx, Terminal
<1>5. StoreStep
  BY <1>2, CommitMarkTyped
<1>6. event[c[1]] # "NONE" /\ c[1] \in Events
  BY <1>1, <1>2, WorkerBorn DEF Deliveries
<1>7. ASSUME NEW d \in Deliveries PROVE NoMoreHolders(d) /\ NoMoreSnapshots(d)
  BY <1>1, <1>5, GotoMoves, SnapshotsSame
<1>8. event'[c[1]] # "NONE" /\ \A e \in Events : event'[e] = "NONE" => event[e] = "NONE"
  BY <1>3, <1>4, <1>6, TypedParts DEF StoreTypeOK
<1>9. /\ delivery'[c].status # "PROCESSING"
      /\ delivery'[c].attempts = delivery[c].attempts
      /\ delivery'[c].resets = delivery[c].resets /\ delivery'[c].aged = delivery[c].aged
      /\ \A d \in Deliveries : d # c => delivery'[d] = delivery[d]
  BY <1>3, <1>4, TypedParts DEF StoreTypeOK, DeliveryRow
<1>10. NoMoreRows(c)
  BY <1>3, <1>5, RowsSame
<1> QED
  BY <1>3, <1>5, <1>6, <1>7, <1>8, <1>9, <1>10, CalmSender

(* A postponed attempt: its row asks again for the attempt of the job's row.   *)
LEMMA LimitSender ==
    ASSUME Typed, SenderOK, NEW w \in Workers, at(w, "delay"),
           markRateLimitedAndSchedule(deliveryId(w), expectedAttempt(w)),
           NEW pc \in {"done", "error"}, goto(w, pc),
           UNCHANGED budget \/ \E kind \in FaultKinds : Spend(kind),
           UNCHANGED <<publisher, replaying>>
    PROVE  SenderOK'
<1>1. worker[w].pc = "delay"
  BY DEF at
<1>2. PICK c \in Deliveries, n \in Nat : c = deliveryId(w) /\ n = expectedAttempt(w)
  BY <1>1, JobTyped
<1> DEFINE row == NewRow(c, n, FALSE)
<1>3. /\ delivery' = [delivery EXCEPT ![c] = [delivery[c] EXCEPT !.status = "PENDING"]]
      /\ outbox' = Append(outbox, row) /\ UNCHANGED event
  BY <1>2 DEF markRateLimitedAndSchedule, reschedule
<1>4. StoreStep
  BY <1>2, MarkRateLimitedTyped
<1>5. event[c[1]] # "NONE"
  BY <1>1, <1>2, WorkerBorn
<1>6. ASSUME NEW d \in Deliveries PROVE NoMoreHolders(d) /\ NoMoreSnapshots(d)
  BY <1>1, <1>4, GotoMoves, SnapshotsSame DEF HoldingPcs
<1>7. /\ \A r \in DOMAIN outbox' : \/ r \in DOMAIN outbox
                                   \/ outbox'[r].delivery = c /\ outbox'[r].attempt = n
  <2>1. outbox \in Seq(OutboxRow)
    BY TypedParts DEF StoreTypeOK
  <2>2. row \in OutboxRow /\ row.delivery = c /\ row.attempt = n
    BY DEF NewRow, OutboxRow
  <2> HIDE DEF row
  <2>3. /\ DOMAIN outbox' = DOMAIN outbox \cup {Len(outbox) + 1}
        /\ outbox'[Len(outbox) + 1] = row
    BY <1>3, <2>1, <2>2, AppendRow
  <2> QED BY <2>2, <2>3
<1>8. NoMoreRows(c)
  <2>1. /\ worker[w].job.row \in DOMAIN outbox
        /\ outbox[worker[w].job.row].delivery = c /\ outbox[worker[w].job.row].attempt = n
    BY <1>1, <1>2, JobTyped DEF deliveryId, expectedAttempt
  <2> QED BY <1>4, <1>7, <2>1 DEF NoMoreRows, StoreStep, Extends
<1>9. /\ delivery'[c].status # "PROCESSING"
      /\ delivery'[c].attempts = delivery[c].attempts
      /\ delivery'[c].resets = delivery[c].resets /\ delivery'[c].aged = delivery[c].aged
      /\ \A d \in Deliveries : d # c => delivery'[d] = delivery[d]
  BY <1>3, TypedParts DEF StoreTypeOK, DeliveryRow
<1> QED
  BY <1>3, <1>4, <1>5, <1>6, <1>7, <1>8, <1>9, CalmSender

(* The other steps of a worker only move it.                                   *)
LEMMA QuietWorker ==
    ASSUME Typed, SenderOK, StoreStep, UNCHANGED <<delivery, event, outbox, publisher, replaying>>,
           UNCHANGED budget \/ \E kind \in FaultKinds : Spend(kind),
           \A d \in Deliveries : NoMoreHolders(d)
    PROVE  SenderOK'
<1>1. \A d \in Deliveries : NoMoreSnapshots(d)
  BY SnapshotsSame
<1> QED
  BY <1>1, QuietSender

LEMMA WorkerSender ==
    ASSUME Typed, SenderOK, NEW w \in Workers, WorkerStep(w) \/ WorkerFault(w),
           UNCHANGED <<publisher, replaying>>
    PROVE  SenderOK'
<1> USE DEF at
<1>1. CASE TakeJob(w)
  <2>1. PICK j \in waiting : worker' = [worker EXCEPT ![w] = [pc |-> "find", job |-> j]]
    BY <1>1 DEF TakeJob
  <2>2. StoreStep
    BY <1>1, UnchangedStore DEF TakeJob
  <2>3. [pc |-> "find", job |-> j].pc \notin HoldingPcs
    BY DEF HoldingPcs
  <2>4. \A d \in Deliveries : NoMoreHolders(d)
    BY <2>1, <2>2, <2>3, HoldersMove
  <2> QED BY <1>1, <2>2, <2>4, QuietWorker DEF TakeJob, storeVars
<1>2. CASE Find(w)
  <2>1. PICK pc \in {"done", "cancel", "limit"} : goto(w, pc)
    BY <1>2 DEF Find
  <2>2. StoreStep
    BY <1>2, UnchangedStore DEF Find
  <2>3. \A d \in Deliveries : NoMoreHolders(d)
    BY <1>2, <2>1, <2>2, GotoMoves DEF Find, HoldingPcs
  <2> QED BY <1>2, <2>2, <2>3, QuietWorker DEF Find, storeVars
<1>3. CASE CheckRateLimit(w)
  <2>1. PICK pc \in {"claim", "delay"} : goto(w, pc)
    BY <1>3 DEF CheckRateLimit
  <2>2. StoreStep
    BY <1>3, UnchangedStore DEF CheckRateLimit
  <2>3. \A d \in Deliveries : NoMoreHolders(d)
    BY <1>3, <2>1, <2>2, GotoMoves DEF CheckRateLimit, HoldingPcs
  <2>4. UNCHANGED budget \/ \E kind \in FaultKinds : Spend(kind)
    BY <1>3 DEF CheckRateLimit, FaultKinds
  <2> QED BY <1>3, <2>2, <2>3, <2>4, QuietWorker DEF CheckRateLimit, storeVars
<1>4. CASE MarkRateLimited(w)
  BY <1>4, LimitSender DEF MarkRateLimited
<1>5. CASE Claim(w)
  <2>1. CASE claimForProcessing(deliveryId(w), expectedAttempt(w)) /\ goto(w, "send")
    BY <1>5, <2>1, ClaimSender DEF Claim
  <2>2. CASE goto(w, "done") /\ UNCHANGED storeVars
    <3>1. StoreStep
      BY <2>2, UnchangedStore
    <3>2. \A d \in Deliveries : NoMoreHolders(d)
      BY <1>5, <2>2, <3>1, GotoMoves DEF Claim, HoldingPcs
    <3> QED BY <1>5, <2>2, <3>1, <3>2, QuietWorker DEF Claim, storeVars
  <2> QED BY <1>5, <2>1, <2>2 DEF Claim
<1>6. CASE Send(w)
  <2>1. PICK pc \in {"succeed", "retry", "dead"} : goto(w, pc)
    BY <1>6 DEF Send, catchPc
  <2>2. StoreStep
    BY <1>6, UnchangedStore DEF Send
  <2>3. \A d \in Deliveries : NoMoreHolders(d)
    BY <1>6, <2>1, <2>2, GotoMoves DEF Send, HoldingPcs
  <2> QED BY <1>6, <2>2, <2>3, QuietWorker DEF Send, storeVars
<1>7. CASE BeginMark(w)
  <2>1. MarkStatus(worker[w].pc) \in Terminal /\ worker[w].pc # "idle"
    BY <1>7 DEF BeginMark, MarkStatus, MarkingPcs, Terminal
  <2>2. StoreStep
    BY <1>7, <2>1, JobTyped, BeginMarkTyped DEF BeginMark
  <2>3. \A d \in Deliveries : NoMoreHolders(d)
    BY <1>7, <2>2, HoldersSame DEF BeginMark
  <2> QED BY <1>7, <2>2, <2>3, QuietWorker DEF BeginMark, beginMark
<1>8. CASE CommitMark(w)
  BY <1>8, CommitSender DEF CommitMark, HoldingPcs
<1>9. CASE MarkFailed(w)
  BY <1>9, RetrySender DEF MarkFailed
<1>10. CASE Finish(w)
  <2>1. StoreStep
    BY <1>10, UnchangedStore DEF Finish
  <2>2. \A d \in Deliveries : NoMoreHolders(d)
    BY <1>10, <2>1, StopMoves DEF Finish
  <2> QED BY <1>10, <2>1, <2>2, QuietWorker DEF Finish, storeVars
<1>11. CASE CallThrows(w)
  <2>1. StoreStep
    BY <1>11, RollbackTyped DEF CallThrows
  <2>2. PICK pc : goto(w, pc) /\ (pc \in HoldingPcs => worker[w].pc \in HoldingPcs)
    BY <1>11 DEF CallThrows, afterThrow, catchPc, HoldingPcs
  <2>3. \A d \in Deliveries : NoMoreHolders(d)
    BY <1>11, <2>1, <2>2, GotoMoves DEF CallThrows
  <2> QED BY <1>11, <2>1, <2>3, QuietWorker DEF CallThrows, rollback, FaultKinds
<1>12. CASE CommitThenThrow(w)
  <2>1. \E kind \in FaultKinds : Spend(kind)
    BY <1>12 DEF CommitThenThrow, FaultKinds
  <2>2. CASE worker[w].pc \in MarkingPcs /\ commitMark(w, deliveryId(w))
    <3>1. PICK pc : goto(w, pc) /\ (pc \in HoldingPcs => worker[w].pc \in HoldingPcs)
      BY <1>12 DEF CommitThenThrow, afterThrow, catchPc, HoldingPcs
    <3> QED BY <2>1, <2>2, <3>1, CommitSender
  <2>3. CASE at(w, "delay") /\ markRateLimitedAndSchedule(deliveryId(w), expectedAttempt(w))
    <3>1. goto(w, "error")
      BY <1>12, <2>3 DEF CommitThenThrow, afterThrow
    <3> QED BY <2>1, <2>3, <3>1, LimitSender
  <2>4. CASE at(w, "claim") /\ claimForProcessing(deliveryId(w), expectedAttempt(w))
    <3>1. goto(w, "error")
      BY <1>12, <2>4 DEF CommitThenThrow, afterThrow
    <3> QED BY <2>1, <2>4, <3>1, ClaimSender
  <2>5. CASE at(w, "retry") /\ markFailedAndSchedule(deliveryId(w), expectedAttempt(w) + 1)
    <3>1. goto(w, "error")
      BY <1>12, <2>5 DEF CommitThenThrow, afterThrow
    <3> QED BY <2>1, <2>5, <3>1, RetrySender
  <2> QED BY <1>12, <2>2, <2>3, <2>4, <2>5 DEF CommitThenThrow
<1>13. CASE CrashWorker(w)
  <2>1. StoreStep
    BY <1>13, RollbackTyped DEF CrashWorker
  <2>2. \A d \in Deliveries : NoMoreHolders(d)
    BY <1>13, <2>1, StopMoves DEF CrashWorker
  <2> QED BY <1>13, <2>1, <2>2, QuietWorker DEF CrashWorker, rollback, FaultKinds
<1> QED
  BY <1>1, <1>2, <1>3, <1>4, <1>5, <1>6, <1>7, <1>8, <1>9, <1>10, <1>11, <1>12, <1>13
  DEF WorkerStep, WorkerFault

-----------------------------------------------------------------------------
(* No step but BeginMaintenance takes a new snapshot of stale deliveries.      *)
LEMMA PublisherSnapshots ==
    ASSUME Typed, NEW p \in Publishers, PublisherStep(p) \/ PublisherFault(p), NEW d \in Deliveries
    PROVE  NoMoreSnapshots(d)
<1>1. \A q \in Publishers : q # p => publisher'[q] = publisher[q]
  BY PublisherRecord DEF PublisherStep, PublisherFault, RecoverStale, FindStranded, InspectJob,
     Unpublish, ReadBatch, AddJob, MarkPublished, CountFailure, AddThrows, MarkThrows, Abort, startItem
<1>2. publisher'[p].stale \subseteq publisher[p].stale
  <2>1. CASE FindStranded(p) \/ InspectJob(p) \/ Unpublish(p) \/ ReadBatch(p) \/ MarkPublished(p)
             \/ MarkThrows(p) \/ AddJob(p) \/ AddThrows(p)
    <3>1. publisher'[p].stale = publisher[p].stale
      <4>1. CASE FindStranded(p)
        BY <4>1, PublisherRecord DEF FindStranded
      <4>2. CASE InspectJob(p)
        BY <4>2, PublisherRecord DEF InspectJob
      <4>3. CASE Unpublish(p)
        BY <4>3, PublisherRecord DEF Unpublish
      <4>4. CASE ReadBatch(p)
        BY <4>4, PublisherRecord DEF ReadBatch
      <4>5. CASE MarkPublished(p) \/ MarkThrows(p)
        BY <4>5, PublisherRecord DEF MarkPublished, MarkThrows
      <4>6. CASE AddJob(p) \/ AddThrows(p)
        BY <4>6, PublisherRecord DEF AddJob, AddThrows, startItem
      <4> QED BY <2>1, <4>1, <4>2, <4>3, <4>4, <4>5, <4>6
    <3> QED BY <3>1
  <2>2. CASE RecoverStale(p)
    BY <2>2, PublisherRecord DEF RecoverStale
  <2>3. CASE CountFailure(p) \/ Abort(p)
    BY <2>3, PublisherRecord DEF CountFailure, Abort, Idle
  <2> QED BY <2>1, <2>2, <2>3 DEF PublisherStep, PublisherFault
<1> QED
  BY <1>1, <1>2 DEF NoMoreSnapshots

(* A claim that is recovered is abandoned: the row of the next attempt may be  *)
(* written, since nobody holds the delivery.                                   *)
LEMMA RecoverSender ==
    ASSUME Typed, SenderOK, NEW p \in Publishers, RecoverStale(p), UNCHANGED replaying
    PROVE  SenderOK'
<1>1. PICK s \in publisher[p].stale : recoverStale(s)
  BY DEF RecoverStale
<1>2. s \in Snapshots
  BY PublisherRecord
<1>3. PICK c \in Deliveries, n \in Nat : c = s.delivery /\ n = s.attempts
  BY <1>2 DEF Snapshots
<1>4. StoreStep /\ UNCHANGED <<worker, budget, event>>
  BY <1>1, <1>2, RecoverTyped DEF RecoverStale, dispatcherVars, recoverStale
<1>5. \A d \in Deliveries : NoMoreHolders(d) /\ NoMoreSnapshots(d)
  BY <1>4, HoldersSame, PublisherSnapshots DEF PublisherStep
<1>6. CASE UNCHANGED <<delivery, outbox>>
  BY <1>4, <1>5, <1>6, QuietSender
<1> DEFINE row == NewRow(c, n + 1, TRUE)
<1>7. CASE /\ delivery[c].status = "PROCESSING" /\ delivery[c].attempts = n
           /\ delivery' = [delivery EXCEPT ![c] = [delivery[c] EXCEPT !.status = "FAILED"]]
           /\ outbox' = Append(outbox, row)
  <2>1. /\ delivery[c] \in DeliveryRow /\ delivery[c].attempts \in Nat
        /\ delivery'[c].attempts = n /\ delivery'[c].status = "FAILED"
        /\ delivery'[c].aged = delivery[c].aged /\ delivery'[c].resets = delivery[c].resets
        /\ \A d \in Deliveries : d # c => delivery'[d] = delivery[d]
    BY <1>7, TypedParts DEF StoreTypeOK, DeliveryRow
  <2>2. event[c[1]] # "NONE"
    BY <1>7 DEF SenderOK, Unborn
  <2>3. \A r \in DOMAIN outbox' : \/ r \in DOMAIN outbox
                                  \/ outbox'[r].delivery = c /\ outbox'[r].attempt = n + 1
    <3>1. outbox \in Seq(OutboxRow)
      BY TypedParts DEF StoreTypeOK
    <3>2. row \in OutboxRow /\ row.delivery = c /\ row.attempt = n + 1
      BY DEF NewRow, OutboxRow
    <3> HIDE DEF row
    <3>3. /\ DOMAIN outbox' = DOMAIN outbox \cup {Len(outbox) + 1}
          /\ outbox'[Len(outbox) + 1] = row
      BY <1>7, <3>1, <3>2, AppendRow
    <3> QED BY <3>2, <3>3
  <2>4. SenderInv(c)'
    <3> SUFFICES ASSUME Clean(c)' PROVE RowsBehind(c)' /\ HolderCurrent(c)' /\ OldAbandoned(c)'
      BY DEF SenderInv
    <3>1. RowsBehind(c) /\ HolderCurrent(c) /\ OldAbandoned(c)
      BY <1>4, <2>1 DEF SenderOK, SenderInv, Clean, NotReplayed, Spent
    <3>2. ~Held(c)
      BY <1>3, <1>7, <3>1 DEF OldAbandoned
    <3>3. ~Held(c)'
      BY <1>5, <3>2 DEF NoMoreHolders, Held
    <3>4. \A r \in DOMAIN outbox : outbox[r].attempt \in Nat
      BY TypedParts, RowsOK DEF StoreTypeOK, OutboxRow
    <3>5. RowsBehind(c)'
      <4> SUFFICES ASSUME NEW r \in DOMAIN outbox', outbox'[r].delivery = c
                   PROVE  outbox'[r].attempt <= n + 1
        BY <2>1, <3>3 DEF RowsBehind
      <4>1. CASE r \in DOMAIN outbox
        <5>1. outbox[r].delivery = c /\ outbox'[r].attempt = outbox[r].attempt
          BY <1>4, <4>1 DEF StoreStep, Extends
        <5> QED BY <1>7, <3>1, <4>1, <5>1 DEF RowsBehind
      <4>2. CASE outbox'[r].attempt = n + 1
        BY <1>3, <4>2
      <4> QED BY <2>3, <4>1, <4>2
    <3>6. HolderCurrent(c)'
      BY <3>3 DEF HolderCurrent, Held
    <3>7. OldAbandoned(c)'
      BY <1>5, <1>7, <2>1, <3>1, <3>3 DEF OldAbandoned, NoMoreSnapshots
    <3> QED BY <3>5, <3>6, <3>7
  <2> QED
    BY <1>4, <1>5, <2>1, <2>2, <2>3, <2>4, OneSender
<1> QED
  BY <1>1, <1>3, <1>6, <1>7 DEF recoverStale, reschedule

LEMMA PublisherSender ==
    ASSUME Typed, SenderOK, NEW p \in Publishers,
           BeginMaintenance(p) \/ PublisherStep(p) \/ PublisherFault(p), UNCHANGED replaying
    PROVE  SenderOK'
<1>1. CASE BeginMaintenance(p)
  <2>1. StoreStep
    BY <1>1, UnchangedStore DEF BeginMaintenance
  <2>2. PICK T \in anyOf(StaleDeliveries) :
          publisher' = [publisher EXCEPT ![p].pc = "stale",
              ![p].stale = {[delivery |-> d, resets |-> delivery[d].resets,
                             attempts |-> delivery[d].attempts] : d \in T}]
    BY <1>1 DEF BeginMaintenance
  <2>3. \A d \in T : delivery[d].aged /\ d \in Deliveries
    BY DEF anyOf, StaleDeliveries
  <2>4. ASSUME NEW d \in Deliveries, Clean(d) PROVE NoMoreSnapshots(d)
    <3>1. delivery[d].aged => ~Held(d)
      BY <2>4 DEF SenderOK, SenderInv, OldAbandoned
    <3>2. \A q \in Publishers : q # p => publisher'[q] = publisher[q]
      BY <2>2, PublisherRecord
    <3>3. \A s \in publisher'[p].stale :
              s.delivery = d => delivery[d].aged /\ s.attempts = delivery[d].attempts
      BY <2>2, <2>3, PublisherRecord
    <3> QED BY <3>1, <3>2, <3>3 DEF NoMoreSnapshots
  <2>5. /\ UNCHANGED <<delivery, event, outbox, worker, budget>>
        /\ \A d \in Deliveries : NoMoreHolders(d) /\ NoMoreRows(d)
    BY <1>1, <2>1, HoldersSame, RowsSame DEF BeginMaintenance, storeVars, dispatcherVars
  <2>6. ASSUME NEW d \in Deliveries PROVE SenderInv(d)'
    <3>1. Clean(d)' => Clean(d)
      BY <2>5 DEF Clean, NotReplayed, Spent
    <3>2. CASE Clean(d)
      <4>1. Calm(d)
        BY <2>4, <2>5, <3>1, <3>2 DEF Calm
      <4> QED BY <4>1, CalmStep DEF SenderOK
    <3>3. CASE ~Clean(d)
      BY <3>1, <3>3 DEF SenderInv
    <3> QED BY <3>2, <3>3
  <2> QED
    BY <2>5, <2>6 DEF SenderOK, Unborn, BudgetOK
<1>2. CASE RecoverStale(p)
  BY <1>2, RecoverSender
<1>3. ASSUME StoreStep, UNCHANGED <<delivery, event, worker>>, DOMAIN outbox' = DOMAIN outbox,
             UNCHANGED budget \/ \E kind \in FaultKinds : Spend(kind),
             PublisherStep(p) \/ PublisherFault(p)
      PROVE  SenderOK'
  <2>1. \A d \in Deliveries : NoMoreHolders(d) /\ NoMoreSnapshots(d)
    BY <1>3, HoldersSame, PublisherSnapshots
  <2> QED BY <1>3, <2>1, QuietSender
<1>4. CASE Unpublish(p) \/ MarkPublished(p) \/ CountFailure(p)
  <2>1. publisher[p].item.row \in DOMAIN outbox
    BY <1>4, PublisherRecord DEF Unpublish, MarkPublished, CountFailure, pubAt
  <2>2. StoreStep /\ UNCHANGED <<delivery, event>> /\ DOMAIN outbox' = DOMAIN outbox
    BY <1>4, <2>1, RowUpdateTyped DEF Unpublish, MarkPublished, CountFailure
  <2> QED
    BY <1>3, <1>4, <2>2 DEF Unpublish, MarkPublished, CountFailure, dispatcherVars, PublisherStep
<1>5. CASE FindStranded(p) \/ InspectJob(p) \/ ReadBatch(p) \/ AddJob(p)
  <2>1. StoreStep
    BY <1>5, UnchangedStore DEF FindStranded, InspectJob, ReadBatch, AddJob
  <2> QED
    BY <1>3, <1>5, <2>1
    DEF FindStranded, InspectJob, ReadBatch, AddJob, storeVars, dispatcherVars, PublisherStep
<1>6. CASE AddThrows(p) \/ Abort(p)
  <2>1. StoreStep
    BY <1>6, UnchangedStore DEF AddThrows, Abort
  <2> QED
    BY <1>3, <1>6, <2>1
    DEF PublisherFault, AddThrows, Abort, storeVars, dispatcherVars, FaultKinds
<1>7. CASE MarkThrows(p)
  <2>1. publisher[p].item.row \in DOMAIN outbox
    BY <1>7, PublisherRecord DEF MarkThrows, pubAt
  <2>2. StoreStep /\ UNCHANGED <<delivery, event>> /\ DOMAIN outbox' = DOMAIN outbox
    BY <1>7, <2>1, RowUpdateTyped, UnchangedStore DEF MarkThrows, storeVars
  <2> QED
    BY <1>3, <1>7, <2>2 DEF MarkThrows, dispatcherVars, PublisherFault, FaultKinds
<1> QED
  BY <1>1, <1>2, <1>4, <1>5, <1>6, <1>7 DEF PublisherStep, PublisherFault

-----------------------------------------------------------------------------
(* An event is accepted: its deliveries had no rows, so nobody held them, and  *)
(* get rows for the first attempt.                                             *)
LEMMA IngestSender ==
    ASSUME Typed, SenderOK, NEW e \in Events, Ingest(e)
    PROVE  SenderOK'
<1>1. PICK subscribed \in SUBSET Endpoints : createForTenant(e, subscribed)
  BY DEF Ingest
<1>2. PICK order \in [1..Cardinality(subscribed) -> subscribed] :
        outbox' = outbox \o [i \in DOMAIN order |-> NewRow(<<e, order[i]>>, 1, TRUE)]
  BY <1>1 DEF createForTenant
<1>3. StoreStep /\ UNCHANGED <<worker, publisher, replaying, budget>> /\ event[e] = "NONE"
  BY <1>1, CreateTyped DEF Ingest, dispatcherVars, createForTenant
<1>4. \A d \in Deliveries : NoMoreHolders(d) /\ NoMoreSnapshots(d)
  BY <1>3, HoldersSame, SnapshotsSame
<1>5. ASSUME NEW r \in DOMAIN outbox', r \notin DOMAIN outbox
      PROVE  outbox'[r].delivery[1] = e /\ outbox'[r].attempt = 1
  <2>1. Cardinality(subscribed) \in Nat /\ DOMAIN order = 1..Cardinality(subscribed)
    BY StoreAssumption, FS_Subset, FS_CardinalityType
  <2> DEFINE rows == [i \in 1..Cardinality(subscribed) |-> NewRow(<<e, order[i]>>, 1, TRUE)]
  <2>2. \A i \in 1..Cardinality(subscribed) :
          rows[i] \in OutboxRow /\ rows[i].delivery[1] = e /\ rows[i].attempt = 1
    BY DEF NewRow, OutboxRow, Deliveries
  <2>3. rows \in [1..Cardinality(subscribed) -> OutboxRow]
    BY <2>2
  <2>4. outbox' = outbox \o rows /\ outbox \in Seq(OutboxRow)
    BY <1>2, <2>1, TypedParts DEF StoreTypeOK
  <2> HIDE DEF rows
  <2>5. rows \in Seq(OutboxRow) /\ DOMAIN rows = 1..Cardinality(subscribed)
    BY <2>1, <2>3
  <2>6. /\ Len(outbox') = Len(outbox) + Len(rows) /\ outbox' \in Seq(OutboxRow)
        /\ \A i \in 1 .. Len(outbox) + Len(rows) :
              outbox'[i] = IF i <= Len(outbox) THEN outbox[i] ELSE rows[i - Len(outbox)]
    BY <2>5, <2>4, ConcatProperties
  <2>7. /\ Len(rows) \in Nat /\ Len(outbox) \in Nat /\ DOMAIN outbox = 1..Len(outbox)
        /\ DOMAIN outbox' = 1..Len(outbox') /\ Len(rows) = Cardinality(subscribed)
    BY <2>1, <2>5, <2>4, <2>6, LenProperties
  <2>8. r \in Nat /\ r > Len(outbox) /\ r <= Len(outbox) + Len(rows)
    BY <1>5, <2>6, <2>7
  <2>9. outbox'[r] = rows[r - Len(outbox)] /\ r - Len(outbox) \in 1..Len(rows)
    BY <2>6, <2>7, <2>8
  <2> QED BY <2>2, <2>7, <2>9
<1>6. /\ event'[e] # "NONE" /\ \A f \in Events : f # e => event'[f] = event[f]
  BY <1>1, TypedParts DEF createForTenant, StoreTypeOK
<1>7. ASSUME NEW d \in Deliveries
      PROVE  /\ delivery'[d].attempts = delivery[d].attempts
             /\ delivery'[d].resets = delivery[d].resets /\ delivery'[d].aged = delivery[d].aged
             /\ delivery'[d].status = delivery[d].status \/ delivery'[d].status = "PENDING"
             /\ d[1] # e => delivery'[d] = delivery[d]
  BY <1>1, TypedParts DEF createForTenant, StoreTypeOK, DeliveryRow
<1>8. ASSUME NEW d \in Deliveries, d[1] # e PROVE NoMoreRows(d)
  BY <1>3, <1>5, <1>8 DEF NoMoreRows, StoreStep, Extends
<1>9. Unborn'
  <2> SUFFICES ASSUME NEW d \in Deliveries, event'[d[1]] = "NONE"
               PROVE  /\ delivery'[d].status = "NONE" /\ d \notin replaying'
                      /\ \A r \in DOMAIN outbox' : outbox'[r].delivery # d
    BY DEF Unborn
  <2>1. d[1] # e /\ event[d[1]] = "NONE"
    BY <1>6 DEF Deliveries
  <2> QED BY <1>3, <1>7, <1>8, <2>1 DEF SenderOK, Unborn, NoMoreRows
<1>10. ASSUME NEW d \in Deliveries PROVE SenderInv(d)'
  <2>1. Clean(d)' => Clean(d)
    BY <1>3, <1>7 DEF Clean, NotReplayed, Spent
  <2>2. CASE d[1] # e
    <3>1. Calm(d)
      BY <1>4, <1>7, <1>8, <2>1, <2>2 DEF Calm
    <3> QED BY <3>1, CalmStep DEF SenderOK
  <2>3. CASE d[1] = e
    <3> SUFFICES ASSUME Clean(d)' PROVE RowsBehind(d)' /\ HolderCurrent(d)' /\ OldAbandoned(d)'
      BY DEF SenderInv
    <3>1. delivery[d].status = "NONE" /\ \A r \in DOMAIN outbox : outbox[r].delivery # d
      BY <1>3, <2>3 DEF SenderOK, Unborn
    <3>2. ~Held(d)
      BY <3>1, JobTyped DEF Held, Holds, deliveryId, HoldingPcs
    <3>3. ~Held(d)'
      BY <1>4, <3>2 DEF NoMoreHolders, Held
    <3>4. \A r \in DOMAIN outbox' : outbox'[r].delivery = d => outbox'[r].attempt = 1
      BY <1>3, <1>5, <3>1 DEF StoreStep, Extends
    <3>5. delivery[d].attempts \in Nat
      BY TypedParts DEF StoreTypeOK, DeliveryRow
    <3>6. RowsBehind(d)'
      BY <1>7, <3>1, <3>3, <3>4, <3>5 DEF RowsBehind
    <3>7. HolderCurrent(d)'
      BY <3>3 DEF HolderCurrent, Held
    <3>8. OldAbandoned(d)'
      BY <1>3, <1>7, <2>1, <3>3 DEF OldAbandoned, SenderOK, SenderInv
    <3> QED BY <3>6, <3>7, <3>8
  <2> QED BY <2>2, <2>3
<1>11. BudgetOK'
  BY <1>3 DEF SenderOK, BudgetOK
<1> QED
  BY <1>9, <1>10, <1>11 DEF SenderOK

LEMMA ApiSender ==
    ASSUME Typed, SenderOK, Api
    PROVE  SenderOK'
<1>1. CASE \E e \in Events : Ingest(e)
  BY <1>1, IngestSender
<1>2. CASE \E d \in Deliveries : ReplayCheck(d)
  <2>1. PICK c \in Deliveries : ReplayCheck(c)
    BY <1>2
  <2>2. StoreStep
    BY <2>1, UnchangedStore DEF ReplayCheck
  <2>3. \A d \in Deliveries : NoMoreHolders(d) /\ NoMoreSnapshots(d)
    BY <2>1, <2>2, HoldersSame, SnapshotsSame DEF ReplayCheck, dispatcherVars
  <2> QED BY <2>1, <2>2, <2>3, QuietSender DEF ReplayCheck, storeVars, FaultKinds
<1>3. CASE \E d \in Deliveries : ReplayReset(d)
  <2>1. PICK c \in Deliveries : ReplayReset(c)
    BY <1>3
  <2>2. StoreStep
    BY <2>1, ResetTyped DEF ReplayReset
  <2>3. \A d \in Deliveries : NoMoreHolders(d) /\ NoMoreSnapshots(d)
    BY <2>1, <2>2, HoldersSame, SnapshotsSame DEF ReplayReset, dispatcherVars
  <2>4. event[c[1]] # "NONE" /\ c[1] \in Events
    BY <2>1 DEF ReplayReset, SenderOK, Unborn, Deliveries
  <2>5. /\ delivery'[c].resets = delivery[c].resets + 1
        /\ \A d \in Deliveries : d # c => delivery'[d] = delivery[d]
    BY <2>1, TypedParts DEF ReplayReset, resetForReplay, reschedule, StoreTypeOK
  <2>6. ~Clean(c)'
    <3>1. delivery[c].resets \in Nat
      BY TypedParts DEF StoreTypeOK, DeliveryRow
    <3> QED BY <2>5, <3>1 DEF Clean, NotReplayed
  <2>7. event'[c[1]] # "NONE" /\ \A e \in Events : event'[e] = "NONE" => event[e] = "NONE"
    BY <2>1, <2>4, TypedParts DEF ReplayReset, resetForReplay, StoreTypeOK
  <2>8. \A r \in DOMAIN outbox' : r \in DOMAIN outbox \/ outbox'[r].delivery = c
    <3>1. outbox \in Seq(OutboxRow)
      BY TypedParts DEF StoreTypeOK
    <3> DEFINE row == NewRow(c, 1, TRUE)
    <3>2. row \in OutboxRow /\ row.delivery = c /\ outbox' = Append(outbox, row)
      BY <2>1 DEF NewRow, OutboxRow, ReplayReset, resetForReplay, reschedule
    <3> HIDE DEF row
    <3> QED BY <3>1, <3>2, AppendRow
  <2>9. SenderInv(c)' /\ replaying' \subseteq replaying /\ UNCHANGED budget
    BY <2>1, <2>6 DEF SenderInv, ReplayReset
  <2> QED BY <2>2, <2>3, <2>4, <2>5, <2>7, <2>8, <2>9, OneSender
<1>4. CASE \E p \in Endpoints : ToggleEndpoint(p)
  <2>1. PICK p \in Endpoints : ToggleEndpoint(p)
    BY <1>4
  <2>2. StoreStep
    BY <2>1, SetActiveTyped DEF ToggleEndpoint
  <2>3. \A d \in Deliveries : NoMoreHolders(d) /\ NoMoreSnapshots(d)
    BY <2>1, <2>2, HoldersSame, SnapshotsSame DEF ToggleEndpoint, dispatcherVars
  <2> QED BY <2>1, <2>2, <2>3, QuietSender DEF ToggleEndpoint, setActive, FaultKinds
<1> QED
  BY <1>1, <1>2, <1>3, <1>4 DEF Api

LEMMA TimeSender ==
    ASSUME Typed, SenderOK, Time
    PROVE  SenderOK'
<1>1. CASE RowDue /\ UNCHANGED <<queueVars, dispatcherVars, publisher, replaying, budget>>
  <2>1. PICK r \in DOMAIN outbox :
          outbox' = [outbox EXCEPT ![r].due = TRUE] /\ UNCHANGED <<delivery, event, tx, active>>
    BY <1>1 DEF RowDue
  <2>2. StoreStep /\ UNCHANGED <<delivery, event>> /\ DOMAIN outbox' = DOMAIN outbox
    BY <2>1, RowUpdateTyped
  <2>3. \A d \in Deliveries : NoMoreHolders(d) /\ NoMoreSnapshots(d)
    BY <1>1, <2>2, HoldersSame, SnapshotsSame DEF dispatcherVars
  <2> QED BY <1>1, <2>2, <2>3, QuietSender
<1>2. CASE \E d \in Deliveries : Age(d) \/ AgeHeld(d)
  <2>1. PICK c \in Deliveries : Age(c) \/ AgeHeld(c)
    BY <1>2
  <2>2. /\ age(c) /\ UNCHANGED <<worker, publisher, replaying>>
        /\ UNCHANGED budget \/ Spend("slow")
    BY <2>1 DEF Age, AgeHeld, dispatcherVars
  <2>3. StoreStep
    BY <2>2, AgeTyped
  <2>4. /\ delivery[c].status = "PROCESSING" /\ delivery'[c].status = "PROCESSING"
        /\ delivery'[c].attempts = delivery[c].attempts /\ delivery'[c].resets = delivery[c].resets
        /\ \A d \in Deliveries : d # c => delivery'[d] = delivery[d]
        /\ UNCHANGED <<event, outbox>>
    BY <2>2, TypedParts DEF age, StoreTypeOK, DeliveryRow
  <2>5. event[c[1]] # "NONE"
    BY <2>4 DEF SenderOK, Unborn
  <2>6. \A d \in Deliveries : NoMoreHolders(d) /\ NoMoreSnapshots(d) /\ NoMoreRows(d)
    BY <2>2, <2>3, <2>4, HoldersSame, SnapshotsSame, RowsSame
  <2>7. UNCHANGED budget \/ \E kind \in FaultKinds : Spend(kind)
    BY <2>2 DEF FaultKinds
  <2>8. CASE Age(c)
    <3>1. ~Held(c)
      BY <2>8 DEF Age, Held
    <3> QED BY <2>2, <2>3, <2>4, <2>5, <2>6, <2>7, <3>1, CalmSender
  <2>9. CASE AgeHeld(c)
    <3>1. SenderInv(c)'
      BY <2>9, SlowSpent DEF AgeHeld, SenderInv, Clean, SenderOK
    <3> QED BY <2>2, <2>3, <2>4, <2>5, <2>6, <2>7, <3>1, OneSender
  <2> QED BY <2>1, <2>8, <2>9
<1> QED
  BY <1>1, <1>2 DEF Time

LEMMA QueueFaultSender ==
    ASSUME Typed, SenderOK, QueueFault
    PROVE  SenderOK'
<1>1. /\ UNCHANGED <<storeVars, dispatcherVars, publisher, replaying>>
      /\ UNCHANGED budget \/ \E kind \in FaultKinds : Spend(kind)
  BY DEF QueueFault, Purge, LoseJob, StallOrphan, StallLive, FaultKinds
<1>2. StoreStep
  BY <1>1, UnchangedStore
<1>3. \A d \in Deliveries : NoMoreHolders(d)
  BY <1>1, <1>2, HoldersSame DEF dispatcherVars
<1> QED
  BY <1>1, <1>2, <1>3, QuietWorker DEF storeVars

LEMMA NextSender == Typed /\ SenderOK /\ [Next]_vars => SenderOK'
<1> SUFFICES ASSUME Typed, SenderOK, [Next]_vars PROVE SenderOK'
  OBVIOUS
<1>1. CASE Next
  BY <1>1, ApiSender, TimeSender, QueueFaultSender, WorkerSender, PublisherSender DEF Next
<1>2. CASE UNCHANGED vars
  <2>1. StoreStep
    BY <1>2, UnchangedStore DEF vars
  <2>2. \A d \in Deliveries : NoMoreHolders(d)
    BY <1>2, <2>1, HoldersSame DEF vars, dispatcherVars
  <2> QED BY <1>2, <2>1, <2>2, QuietWorker DEF vars, storeVars
<1> QED
  BY <1>1, <1>2

(* SingleSender: however jobs are duplicated, lost or run again, whoever       *)
(* crashes and however many workers and publishers there are, no two workers   *)
(* are between claiming and recording the same delivery, until it is replayed  *)
(* or a send outlives the stale age.  The attempt number in the claim is what  *)
(* makes it true: no row asks for the next attempt while one is under way.     *)
THEOREM ClaimsExclusive == Spec => []SingleSender
<1>1. Spec => []SenderOK
  BY InitSender, NextSender, AlwaysTyped, PTL DEF Spec
<1> QED
  BY <1>1, SenderSingle, PTL
=============================================================================
