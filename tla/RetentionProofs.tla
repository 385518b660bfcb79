---------------------------- MODULE RetentionProofs ----------------------------
(* Proofs about Retention: for any number of deliveries, workers, replays and  *)
(* faults and any retention, the clean-up deletes what has ended and rested    *)
(* for long enough, and leaves a pending delivery the row or job it needs.     *)
EXTENDS Retention, TLAPS

USE RetentionAssumption

-----------------------------------------------------------------------------
(* Tables: functions that get a value more, or lose some.                      *)
LEMMA WithFacts ==
    ASSUME NEW f, NEW x, NEW y
    PROVE  /\ DOMAIN with(f, x, y) = DOMAIN f \cup {x}
           /\ with(f, x, y)[x] = y
           /\ \A z \in DOMAIN f : z # x => with(f, x, y)[z] = f[z]
BY DEF with

LEMMA WithoutFacts ==
    ASSUME NEW f, NEW S
    PROVE  /\ DOMAIN without(f, S) = DOMAIN f \ S
           /\ \A z \in DOMAIN f \ S : without(f, S)[z] = f[z]
BY DEF without

-----------------------------------------------------------------------------
(* TypeOK, table by table.  Attempts grow with the faults: a delivery that is  *)
(* claimed and that nobody attends to has lost its worker to one, or was left  *)
(* with an attempt to spare.                                                   *)
EventStatuses == {"PROCESSING", "DONE", "FAILED", "GONE"}
DeliveryStatuses == {"PENDING", "PROCESSING", "FAILED", "GONE"} \cup Terminal

EventTyped == event \in [status : EventStatuses, age : 0..MaxAge]
DeliveryTyped ==
    delivery \in [Deliveries -> [status : DeliveryStatuses, attempts : Attempts, age : 0..MaxAge]]
OutboxTyped == DOMAIN outbox \subseteq RowIds /\ \A r \in DOMAIN outbox : outbox[r] \in Rows
JobsTyped == DOMAIN jobs \subseteq Jobs /\ \A j \in DOMAIN jobs : jobs[j] \in JobStates

Busy == [pc : {"claim", "send", "catch"}, job : Jobs]
Marks == [pc : {"commit"}, job : Jobs, outcome : Terminal, status : {"PROCESSING", "DONE", "FAILED"}]
WorkerTyped == worker \in [Workers -> {Idle} \cup Busy \cup Marks]

FaultsTyped == faults \in 0..MaxFaults
RestTyped ==
    /\ pass \in {"none", "events", "recovery"}
    /\ replay \in [read : SUBSET Deliveries, reset : SUBSET Deliveries, count : 0..MaxReplays]
    /\ upkeep \in {"done", "due", "lapsed"}
    /\ skewed \in BOOLEAN
    /\ strayed \subseteq Deliveries

ClaimsCounted ==
    \A d \in Deliveries : delivery[d].status = "PROCESSING" =>
        attended(d) \/ delivery[d].attempts < MaxAttempts + faults

Typed == /\ EventTyped /\ DeliveryTyped /\ OutboxTyped
         /\ JobsTyped /\ WorkerTyped /\ FaultsTyped /\ RestTyped /\ ClaimsCounted

LEMMA TypedIsTypeOK == Typed => TypeOK
BY Zenon DEF Typed, TypeOK, EventTyped, EventStatuses, DeliveryTyped, DeliveryStatuses, OutboxTyped,
             JobsTyped, WorkerTyped, Busy, Marks, FaultsTyped, RestTyped

(* What a worker holds.                                                        *)
LEMMA WorkerKinds ==
    ASSUME WorkerTyped, NEW w \in Workers
    PROVE  /\ worker[w].pc \in {"idle", "claim", "send", "catch", "commit"}
           /\ at(w, "idle") => worker[w] = Idle
           /\ ~at(w, "idle") => /\ worker[w].job \in Jobs
                                /\ row(w) \in RowIds /\ own(w) \in Deliveries
                                /\ expected(w) \in Attempts \ {0}
           /\ at(w, "commit") => /\ worker[w].outcome \in Terminal
                                 /\ worker[w].status \in {"PROCESSING", "DONE", "FAILED"}
<1>1. worker[w] \in {Idle} \cup Busy \cup Marks
  BY DEF WorkerTyped
<1>2. ASSUME worker[w].job \in Jobs
      PROVE  row(w) \in RowIds /\ own(w) \in Deliveries /\ expected(w) \in Attempts \ {0}
  BY <1>2 DEF row, own, expected, Jobs, RowIds
<1>3. CASE worker[w] = Idle
  BY <1>3 DEF Idle, at
<1>4. CASE worker[w] \in Busy
  BY <1>4, <1>2 DEF Busy, at
<1>5. CASE worker[w] \in Marks
  BY <1>5, <1>2 DEF Marks, at
<1> QED BY <1>1, <1>3, <1>4, <1>5

LEMMA AttemptsFacts ==
    ASSUME NEW f \in Nat
    PROVE  /\ 0 \in 0..(MaxAttempts + f) /\ 1 \in 1..(MaxAttempts + f)
           /\ \A g \in Nat : f <= g => 0..(MaxAttempts + f) \subseteq 0..(MaxAttempts + g)
<1>1. MaxAttempts \in Nat \ {0}
  OBVIOUS
<1>2. \A m \in Nat \ {0} :
          /\ 0 \in 0..(m + f) /\ 1 \in 1..(m + f)
          /\ \A g \in Nat : f <= g => 0..(m + f) \subseteq 0..(m + g)
  OBVIOUS
<1> QED BY <1>1, <1>2, Zenon

(* Faults only grow, and with them the attempts: what has a type keeps it.     *)
Grown == FaultsTyped /\ FaultsTyped' /\ faults <= faults'

LEMMA Wider ==
    ASSUME Grown
    PROVE  /\ Attempts \subseteq Attempts' /\ Rows \subseteq Rows' /\ Jobs \subseteq Jobs'
           /\ DeliveryTyped /\ UNCHANGED delivery => DeliveryTyped'
           /\ OutboxTyped /\ UNCHANGED outbox => OutboxTyped'
           /\ JobsTyped /\ UNCHANGED jobs => JobsTyped'
           /\ WorkerTyped /\ UNCHANGED worker => WorkerTyped'
<1>1. Attempts \subseteq Attempts'
  <2>1. faults \in Nat /\ faults' \in Nat /\ faults <= faults'
    BY DEF Grown, FaultsTyped
  <2> QED BY <2>1, AttemptsFacts, Zenon DEF Attempts
<1>2. Rows \subseteq Rows' /\ Jobs \subseteq Jobs'
  BY <1>1 DEF Rows, Jobs
<1>3. Busy \subseteq Busy' /\ Marks \subseteq Marks'
  BY <1>2 DEF Busy, Marks
<1>4. DeliveryTyped /\ UNCHANGED delivery => DeliveryTyped'
  BY <1>1 DEF DeliveryTyped
<1>5. OutboxTyped /\ UNCHANGED outbox => OutboxTyped'
  BY <1>2 DEF OutboxTyped
<1>6. JobsTyped /\ UNCHANGED jobs => JobsTyped'
  BY <1>2 DEF JobsTyped
<1>7. WorkerTyped /\ UNCHANGED worker => WorkerTyped'
  BY <1>3 DEF WorkerTyped
<1> QED BY <1>1, <1>2, <1>4, <1>5, <1>6, <1>7

LEMMA FaultsGrow == FaultsTyped /\ [Next]_vars => Grown
<1> SUFFICES ASSUME FaultsTyped, [Next]_vars PROVE Grown
  OBVIOUS
<1>1. UNCHANGED faults \/ fault
  BY DEF Next, Publish, Maintenance, cleanupPublishedOutboxRows, cleanupOldEvents,
         recoverStaleDelivery, recoverStrandedPublishedOutbox, GiveUp, LoseJob, Day, WorkerStep,
         Find, MarkRateLimited, Claim, MarkFailed, BeginMark, CommitMark, Throw, return, throw,
         ReplayCheck, ReplayReset, vars
<1> QED BY <1>1 DEF fault, Grown, FaultsTyped

(* A new row, under an id of its own.                                          *)
Creates(d, n, r) ==
    /\ r \in RowIds /\ r[1] = d
    /\ r \notin DOMAIN outbox /\ \A j \in DOMAIN jobs : j.row # r
    /\ DOMAIN outbox' = DOMAIN outbox \cup {r}
    /\ outbox'[r] = newRow(n)
    /\ \A q \in DOMAIN outbox : outbox'[q] = outbox[q]

LEMMA Created ==
    ASSUME NEW d \in Deliveries, NEW n \in Attempts' \ {0}, OutboxTyped, Grown, create(d, n)
    PROVE  OutboxTyped' /\ \E r \in RowIds : Creates(d, n, r)
<1>1. PICK r \in freeIds(d) : outbox' = with(outbox, r, newRow(n))
  BY DEF create
<1>2. r \in RowIds /\ r[1] = d /\ r \notin DOMAIN outbox /\ \A j \in DOMAIN jobs : j.row # r
  BY DEF freeIds
<1> DEFINE new == newRow(n)
<1>3. /\ DOMAIN outbox' = DOMAIN outbox \cup {r} /\ outbox'[r] = new
      /\ \A q \in DOMAIN outbox : outbox'[q] = outbox[q]
  <2> HIDE DEF new
  <2>1. outbox' = with(outbox, r, new)
    BY <1>1 DEF new
  <2> QED BY <2>1, <1>2 DEF with
<1>4. Creates(d, n, r)
  BY <1>2, <1>3 DEF Creates
<1>5. newRow(n) \in Rows'
  BY DEF newRow, Rows
<1> QED BY <1>4, <1>5, Wider DEF OutboxTyped, Creates

-----------------------------------------------------------------------------
(* What happens to a delivery, the event or a worker keeps the types.          *)
LEMMA UpdateTyped ==
    ASSUME DeliveryTyped, Grown, NEW d \in Deliveries, NEW s \in DeliveryStatuses, update(d, s)
    PROVE  /\ DeliveryTyped'
           /\ delivery'[d].status = s /\ delivery'[d].age = 0
           /\ delivery'[d].attempts = delivery[d].attempts
           /\ \A c \in Deliveries : c # d => delivery'[c] = delivery[c]
<1>1. 0 \in 0..MaxAge
  BY DEF MaxAge
<1> QED BY <1>1, Wider DEF DeliveryTyped, update

LEMMA UpdateEventTyped ==
    ASSUME NEW s \in EventStatuses, updateEvent(s)
    PROVE  EventTyped' /\ event'.status = s /\ event'.age = 0
<1>1. 0 \in 0..MaxAge
  BY DEF MaxAge
<1> QED BY <1>1 DEF EventTyped, updateEvent

LEMMA GotoTyped ==
    ASSUME WorkerTyped, Grown, NEW w \in Workers, ~at(w, "idle"),
           NEW pc \in {"claim", "send", "catch"}, goto(w, pc)
    PROVE  /\ WorkerTyped'
           /\ at(w, pc)' /\ worker'[w].job = worker[w].job
           /\ \A v \in Workers : v # w => worker'[v] = worker[v]
<1>1. worker[w].job \in Jobs'
  BY WorkerKinds, Wider
<1>2. [pc |-> pc, job |-> worker[w].job] \in Busy'
  BY <1>1 DEF Busy
<1>3. worker'[w] = [pc |-> pc, job |-> worker[w].job] /\ \A v \in Workers : v # w => worker'[v] = worker[v]
  BY DEF WorkerTyped, goto
<1>4. Busy \subseteq Busy' /\ Marks \subseteq Marks'
  BY Wider DEF Busy, Marks
<1> QED BY <1>2, <1>3, <1>4 DEF WorkerTyped, goto, at

LEMMA FinishTyped ==
    ASSUME WorkerTyped, JobsTyped, Grown, NEW w \in Workers, NEW state \in {"completed", "failed"},
           finish(w, state)
    PROVE  /\ WorkerTyped' /\ JobsTyped'
           /\ worker'[w] = Idle
           /\ \A v \in Workers : v # w => worker'[v] = worker[v]
           /\ DOMAIN jobs' = DOMAIN jobs
           /\ \A j \in DOMAIN jobs : jobs'[j] = IF j = worker[w].job THEN state ELSE jobs[j]
<1>1. state \in JobStates
  BY DEF JobStates
<1>2. Busy \subseteq Busy' /\ Marks \subseteq Marks' /\ Jobs \subseteq Jobs'
  BY Wider DEF Busy, Marks
<1>3. worker'[w] = Idle /\ \A v \in Workers : v # w => worker'[v] = worker[v]
  BY DEF WorkerTyped, finish
<1>4. WorkerTyped'
  BY <1>2, <1>3 DEF WorkerTyped, finish
<1>5. /\ DOMAIN jobs' = DOMAIN jobs
      /\ \A j \in DOMAIN jobs : jobs'[j] = IF j = worker[w].job THEN state ELSE jobs[j]
  BY DEF finish
<1> QED BY <1>1, <1>2, <1>3, <1>4, <1>5 DEF JobsTyped

(* A worker whose call returns or throws is done with its job, unless it       *)
(* catches what markSuccess has thrown.                                        *)
Leaves(w) ==
    /\ \A v \in Workers : v # w => worker'[v] = worker[v]
    /\ DOMAIN jobs' = DOMAIN jobs
    /\ \A j \in DOMAIN jobs : j # worker[w].job => jobs'[j] = jobs[j]
    /\ \/ /\ worker'[w] = Idle
          /\ \A j \in DOMAIN jobs : j = worker[w].job => jobs'[j] \in {"completed", "failed"}
       \/ /\ at(w, "commit") /\ worker[w].outcome = "SUCCESS"
          /\ at(w, "catch")' /\ worker'[w].job = worker[w].job
          /\ jobs' = jobs /\ faults < faults'

LEMMA LeavesTyped ==
    ASSUME WorkerTyped, JobsTyped, Grown, NEW w \in Workers, ~at(w, "idle"),
           \/ return(w) \/ throw(w)
           \/ finish(w, "completed") \/ finish(w, "failed")
    PROVE  WorkerTyped' /\ JobsTyped' /\ Leaves(w)
<1>1. CASE finish(w, "completed") \/ finish(w, "failed")
  <2>1. PICK state \in {"completed", "failed"} : finish(w, state)
    BY <1>1
  <2> QED BY <2>1, FinishTyped DEF Leaves
<1>2. CASE goto(w, "catch") /\ UNCHANGED jobs /\ fault /\ at(w, "commit")
           /\ worker[w].outcome = "SUCCESS"
  BY <1>2, GotoTyped, Wider DEF Leaves, fault, FaultsTyped, Grown
<1> QED BY <1>1, <1>2 DEF return, throw

(* Ages grow, and stay where they are told apart no more.                      *)
LEMMA OlderFacts ==
    ASSUME NEW most \in Nat, NEW a \in 0..most
    PROVE  /\ older(a, most) \in 0..most /\ a <= older(a, most)
           /\ older(a, most) <= a + 1
           /\ \A b \in 0..most : a <= b => older(a, most) <= older(b, most)
BY DEF older

-----------------------------------------------------------------------------
(* A claimed delivery that stays claimed is attended to as before, or a fault  *)
(* has been spent.                                                             *)
LEMMA CountedKept ==
    ASSUME DeliveryTyped, ClaimsCounted, Grown,
           \A d \in Deliveries : delivery'[d].status = "PROCESSING" =>
               /\ delivery[d].status = "PROCESSING" /\ delivery'[d].attempts = delivery[d].attempts
               /\ attended(d) => attended(d)' \/ faults < faults'
    PROVE  ClaimsCounted'
<1> SUFFICES ASSUME NEW d \in Deliveries, delivery'[d].status = "PROCESSING", ~attended(d)'
             PROVE  delivery'[d].attempts < MaxAttempts + faults'
  BY DEF ClaimsCounted
<1>1. delivery[d].attempts \in 0..(MaxAttempts + faults)
  BY DEF DeliveryTyped, Attempts
<1>2. delivery[d].attempts < MaxAttempts + faults \/ faults < faults'
  BY DEF ClaimsCounted
<1> QED BY <1>1, <1>2 DEF Grown, FaultsTyped

(* A delivery keeps the worker that attends to it, unless that is the one that *)
(* leaves.                                                                     *)
LEMMA Attending ==
    ASSUME NEW w \in Workers, \A v \in Workers : v # w => worker'[v] = worker[v],
           NEW d \in Deliveries, delivery'[d].attempts = delivery[d].attempts, attended(d),
           \/ at(w, "claim") \/ at(w, "idle") \/ own(w) # d
           \/ worker'[w].pc \in {"send", "catch", "commit"} /\ worker'[w].job = worker[w].job
    PROVE  attended(d)'
<1>1. PICK v \in Workers : /\ worker[v].pc \in {"send", "catch", "commit"}
                           /\ own(v) = d /\ expected(v) = delivery[d].attempts
  BY DEF attended
<1>2. worker'[v].pc \in {"send", "catch", "commit"} /\ worker'[v].job = worker[v].job
  BY <1>1 DEF at
<1>3. own(v)' = own(v) /\ expected(v)' = expected(v)
  BY <1>2 DEF own, row, expected
<1> QED BY <1>1, <1>2, <1>3 DEF attended

(* So it is after a step of a worker that ends by leaving, if its own delivery *)
(* is not claimed after it, was not attended to by it, or a fault was spent.   *)
LEMMA LeavesCounted ==
    ASSUME DeliveryTyped, ClaimsCounted, Grown, NEW w \in Workers, ~at(w, "idle"),
           own(w) \in Deliveries, Leaves(w),
           \A d \in Deliveries : d # own(w) => delivery'[d] = delivery[d],
           \/ delivery'[own(w)].status # "PROCESSING"
           \/ delivery'[own(w)] = delivery[own(w)] /\ (at(w, "claim") \/ faults < faults')
    PROVE  ClaimsCounted'
<1> SUFFICES ASSUME NEW d \in Deliveries, delivery'[d].status = "PROCESSING"
             PROVE  /\ delivery[d].status = "PROCESSING" /\ delivery'[d].attempts = delivery[d].attempts
                    /\ attended(d) => attended(d)' \/ faults < faults'
  BY CountedKept
<1>1. delivery'[d] = delivery[d]
  OBVIOUS
<1>2. own(w) # d \/ at(w, "claim") \/ faults < faults'
  OBVIOUS
<1> QED BY <1>1, <1>2, Attending DEF Leaves

-----------------------------------------------------------------------------
(* Every step keeps the types.                                                 *)
LEMMA InitTyped == Init => Typed
<1> SUFFICES ASSUME Init PROVE Typed
  OBVIOUS
<1>1. /\ 0 \in 0..MaxAge /\ 1 \in 1..MaxRows /\ faults = 0
      /\ 0 \in Attempts /\ 1 \in Attempts \ {0}
  BY DEF Init, MaxAge, Attempts
<1>2. newRow(1) \in Rows
  BY <1>1 DEF newRow, Rows
<1>3. EventTyped /\ DeliveryTyped
  BY <1>1 DEF Init, EventTyped, DeliveryTyped, EventStatuses, DeliveryStatuses
<1>4. OutboxTyped
  BY <1>1, <1>2 DEF Init, OutboxTyped, RowIds
<1>5. JobsTyped
  BY DEF Init, JobsTyped
<1>6. WorkerTyped
  BY DEF Init, WorkerTyped
<1>7. RestTyped /\ FaultsTyped
  <2>1. 0 \in 0..MaxReplays /\ 0 \in 0..MaxFaults
    OBVIOUS
  <2>2. replay \in [read : SUBSET Deliveries, reset : SUBSET Deliveries, count : 0..MaxReplays]
    BY <2>1 DEF Init
  <2> QED BY <1>1, <2>1, <2>2, Zenon DEF Init, RestTyped, FaultsTyped
<1>8. ClaimsCounted
  BY DEF Init, ClaimsCounted
<1> QED BY <1>3, <1>4, <1>5, <1>6, <1>7, <1>8 DEF Typed

LEMMA PublishTyped == Typed /\ Grown /\ Publish => Typed'
<1> SUFFICES ASSUME Typed, Grown, Publish PROVE Typed'
  OBVIOUS
<1> USE DEF Typed
<1>1. PICK r \in DOMAIN outbox :
          LET j == [row |-> r, attempt |-> outbox[r].attempt, tries |-> outbox[r].tries]
          IN  /\ ~outbox[r].published
              /\ jobs' = IF j \in DOMAIN jobs THEN jobs ELSE with(jobs, j, "waiting")
              /\ outbox' = [outbox EXCEPT ![r].published = TRUE, ![r].age = 0]
  BY DEF Publish
<1> DEFINE j == [row |-> r, attempt |-> outbox[r].attempt, tries |-> outbox[r].tries]
<1>2. outbox[r] \in Rows /\ r \in RowIds
  BY DEF OutboxTyped
<1>3. j \in Jobs
  BY <1>2 DEF Rows, Jobs
<1>4. UNCHANGED <<event, delivery, worker, faults, pass, replay, upkeep, skewed, strayed>>
  BY DEF Publish
<1>5. JobsTyped'
  <2> HIDE DEF j
  <2>1. CASE j \in DOMAIN jobs
    BY <2>1, <1>1, Wider DEF j
  <2>2. CASE j \notin DOMAIN jobs
    <3>1. jobs' = with(jobs, j, "waiting")
      BY <2>2, <1>1 DEF j
    <3> QED BY <3>1, <1>3, Wider DEF JobsTyped, with, JobStates
  <2> QED BY <2>1, <2>2
<1>6. OutboxTyped'
  <2>1. /\ DOMAIN outbox' = DOMAIN outbox
        /\ outbox'[r] = [outbox[r] EXCEPT !.published = TRUE, !.age = 0]
        /\ \A q \in DOMAIN outbox : q # r => outbox'[q] = outbox[q]
    BY <1>1
  <2>2. 0 \in 0..Week
    OBVIOUS
  <2>3. [outbox[r] EXCEPT !.published = TRUE, !.age = 0] \in Rows
    BY <1>2, <2>2 DEF Rows
  <2> QED BY <2>1, <2>3, Wider DEF OutboxTyped
<1>7. ClaimsCounted'
  BY <1>4, CountedKept DEF attended, own, row, expected
<1>8. EventTyped' /\ DeliveryTyped' /\ WorkerTyped' /\ FaultsTyped' /\ RestTyped'
  BY <1>4, Wider DEF EventTyped, RestTyped, FaultsTyped
<1> QED BY <1>5, <1>6, <1>7, <1>8

LEMMA FindTyped == \A w \in Workers : Typed /\ Grown /\ Find(w) => Typed'
<1> SUFFICES ASSUME NEW w \in Workers, Typed, Grown, Find(w) PROVE Typed'
  OBVIOUS
<1> USE DEF Typed
<1>1. PICK j \in DOMAIN jobs :
          LET over == ~exists(j.row[1]) \/ delivery[j.row[1]].status \in Terminal
          IN  /\ jobs' = [jobs EXCEPT ![j] = IF over THEN "completed" ELSE "active"]
              /\ worker' = IF over THEN worker
                           ELSE [worker EXCEPT ![w] = [pc |-> "claim", job |-> j]]
  BY DEF Find
<1>2. /\ at(w, "idle")
      /\ UNCHANGED <<event, delivery, outbox, faults, pass, replay, upkeep, skewed, strayed>>
  BY DEF Find
<1>3. j \in Jobs /\ [pc |-> "claim", job |-> j] \in Busy
  BY DEF JobsTyped, Busy
<1>4. JobsTyped' /\ WorkerTyped'
  <2>1. /\ Jobs' = Jobs /\ Busy' = Busy /\ Marks' = Marks
    BY <1>2 DEF Jobs, Busy, Marks, Attempts
  <2> QED BY <1>1, <1>3, <2>1 DEF JobsTyped, WorkerTyped, JobStates
<1>5. ClaimsCounted'
  <2>1. \A v \in Workers : v # w => worker'[v] = worker[v]
    BY <1>1
  <2> QED BY <1>2, <2>1, Attending, CountedKept
<1>6. EventTyped' /\ DeliveryTyped' /\ OutboxTyped' /\ FaultsTyped' /\ RestTyped'
  BY <1>2, Wider DEF EventTyped, RestTyped, FaultsTyped
<1> QED BY <1>4, <1>5, <1>6

LEMMA RefusalTyped == \A w \in Workers : Typed /\ Grown /\ MarkRateLimited(w) => Typed'
<1> SUFFICES ASSUME NEW w \in Workers, Typed, Grown, MarkRateLimited(w) PROVE Typed'
  OBVIOUS
<1> USE DEF Typed
<1>1. ~at(w, "idle") /\ at(w, "claim") /\ own(w) \in Deliveries /\ expected(w) \in Attempts' \ {0}
  BY WorkerKinds, Wider DEF MarkRateLimited, at
<1>2. EventTyped' /\ FaultsTyped'
  BY DEF MarkRateLimited, EventTyped, Grown
<1>3. RestTyped'
  <2>1. strayed' \subseteq Deliveries
    BY <1>1 DEF MarkRateLimited, RestTyped
  <2> QED BY <2>1 DEF MarkRateLimited, reopens, RestTyped
<1>4. CASE exists(own(w))
  <2>1. update(own(w), "PENDING") /\ create(own(w), expected(w)) /\ (return(w) \/ throw(w))
    BY <1>4 DEF MarkRateLimited
  <2>2. /\ DeliveryTyped' /\ delivery'[own(w)].status = "PENDING"
        /\ \A d \in Deliveries : d # own(w) => delivery'[d] = delivery[d]
    BY <1>1, <2>1, UpdateTyped DEF DeliveryStatuses
  <2>3. OutboxTyped'
    BY <1>1, <2>1, Created
  <2>4. WorkerTyped' /\ JobsTyped' /\ Leaves(w)
    BY <1>1, <2>1, LeavesTyped
  <2>5. ClaimsCounted'
    BY <1>1, <2>2, <2>4, LeavesCounted
  <2> QED BY <1>2, <1>3, <2>2, <2>3, <2>4, <2>5
<1>5. CASE ~exists(own(w))
  <2>1. finish(w, "failed") /\ UNCHANGED <<delivery, outbox>>
    BY <1>5 DEF MarkRateLimited
  <2>2. WorkerTyped' /\ JobsTyped' /\ Leaves(w)
    BY <1>1, <2>1, LeavesTyped
  <2>3. ClaimsCounted'
    BY <1>1, <2>1, <2>2, LeavesCounted
  <2> QED BY <1>2, <1>3, <2>1, <2>2, <2>3, Wider
<1> QED BY <1>4, <1>5

LEMMA ClaimTyped == \A w \in Workers : Typed /\ Grown /\ Claim(w) => Typed'
<1> SUFFICES ASSUME NEW w \in Workers, Typed, Grown, Claim(w) PROVE Typed'
  OBVIOUS
<1> USE DEF Typed
<1>1. /\ ~at(w, "idle") /\ at(w, "claim") /\ ~at(w, "commit")
      /\ own(w) \in Deliveries /\ expected(w) \in Attempts
  BY WorkerKinds DEF Claim, at
<1>2. OutboxTyped' /\ RestTyped' /\ FaultsTyped'
  BY Wider DEF Claim, RestTyped, Grown
<1>3. CASE /\ delivery[own(w)].status \in {"PENDING", "FAILED"}
           /\ delivery[own(w)].attempts = expected(w) - 1
  <2>1. /\ delivery' = [delivery EXCEPT ![own(w)] =
              [status |-> "PROCESSING", attempts |-> @.attempts + 1, age |-> 0]]
        /\ updateEvent("PROCESSING")
        /\ (goto(w, "send") /\ UNCHANGED <<jobs, faults>>) \/ throw(w)
    BY <1>3 DEF Claim
  <2>2. delivery[own(w)].attempts + 1 = expected(w) /\ 0 \in 0..MaxAge
    BY <1>1, <1>3 DEF MaxAge, Attempts
  <2>3. /\ DeliveryTyped' /\ delivery'[own(w)].attempts = expected(w)
        /\ \A d \in Deliveries : d # own(w) => delivery'[d] = delivery[d]
    BY <2>1, <2>2, <1>1, Wider DEF DeliveryTyped, DeliveryStatuses
  <2>4. EventTyped'
    BY <2>1, UpdateEventTyped DEF EventStatuses
  <2>5. CASE goto(w, "send") /\ UNCHANGED <<jobs, faults>>
    <3>1. /\ WorkerTyped' /\ at(w, "send")' /\ worker'[w].job = worker[w].job
          /\ \A v \in Workers : v # w => worker'[v] = worker[v]
      BY <1>1, <2>5, GotoTyped
    <3>2. ASSUME NEW d \in Deliveries, d = own(w) PROVE attended(d)'
      BY <2>3, <3>1, <3>2 DEF attended, at, own, row, expected
    <3>3. ClaimsCounted'
      <4> SUFFICES ASSUME NEW d \in Deliveries, delivery'[d].status = "PROCESSING", d # own(w)
                   PROVE  attended(d)' \/ delivery'[d].attempts < MaxAttempts + faults'
        BY <3>2 DEF ClaimsCounted
      <4>1. delivery'[d] = delivery[d] /\ (attended(d) => attended(d)')
        BY <1>1, <2>3, <3>1, Attending
      <4> QED BY <2>5, <4>1 DEF ClaimsCounted
    <3>4. JobsTyped'
      BY <2>5, Wider
    <3> QED BY <1>2, <2>3, <2>4, <3>1, <3>3, <3>4
  <2>6. CASE throw(w)
    <3>1. WorkerTyped' /\ JobsTyped' /\ Leaves(w) /\ faults' = faults + 1
      BY <1>1, <2>6, LeavesTyped DEF throw, fault
    <3>2. ClaimsCounted'
      <4> SUFFICES ASSUME NEW d \in Deliveries PROVE delivery'[d].attempts < MaxAttempts + faults'
        BY DEF ClaimsCounted
      <4>1. delivery'[d].attempts \in Attempts
        BY <1>1, <2>3 DEF DeliveryTyped
      <4> QED BY <3>1, <4>1 DEF Attempts, FaultsTyped
    <3> QED BY <1>2, <2>3, <2>4, <3>1, <3>2
  <2> QED BY <2>1, <2>5, <2>6
<1>4. CASE ~(/\ delivery[own(w)].status \in {"PENDING", "FAILED"}
             /\ delivery[own(w)].attempts = expected(w) - 1)
  <2>1. return(w) /\ UNCHANGED <<event, delivery>>
    BY <1>4 DEF Claim
  <2>2. WorkerTyped' /\ JobsTyped' /\ Leaves(w)
    BY <1>1, <2>1, LeavesTyped
  <2>3. ClaimsCounted'
    BY <1>1, <2>1, <2>2, LeavesCounted
  <2> QED BY <1>2, <2>1, <2>2, <2>3, Wider DEF EventTyped
<1> QED BY <1>3, <1>4

LEMMA FailureTyped == \A w \in Workers : Typed /\ Grown /\ MarkFailed(w) => Typed'
<1> SUFFICES ASSUME NEW w \in Workers, Typed, Grown, MarkFailed(w) PROVE Typed'
  OBVIOUS
<1> USE DEF Typed
<1>1. /\ ~at(w, "idle") /\ own(w) \in Deliveries
      /\ expected(w) \in Attempts \ {0} /\ expected(w) < MaxAttempts
  BY WorkerKinds DEF MarkFailed, at
<1>2. expected(w) + 1 \in Attempts' \ {0}
  BY <1>1 DEF Attempts, Grown, FaultsTyped
<1>3. RestTyped' /\ EventTyped' /\ FaultsTyped'
  BY DEF MarkFailed, reopens, RestTyped, EventTyped, Grown
<1>4. CASE exists(own(w))
  <2>1. update(own(w), "FAILED") /\ create(own(w), expected(w) + 1) /\ (return(w) \/ throw(w))
    BY <1>4 DEF MarkFailed
  <2>2. /\ DeliveryTyped' /\ delivery'[own(w)].status = "FAILED"
        /\ \A d \in Deliveries : d # own(w) => delivery'[d] = delivery[d]
    BY <1>1, <2>1, UpdateTyped DEF DeliveryStatuses
  <2>3. OutboxTyped'
    BY <1>1, <1>2, <2>1, Created
  <2>4. WorkerTyped' /\ JobsTyped' /\ Leaves(w)
    BY <1>1, <2>1, LeavesTyped
  <2>5. ClaimsCounted'
    BY <1>1, <2>2, <2>4, LeavesCounted
  <2> QED BY <1>3, <2>2, <2>3, <2>4, <2>5
<1>5. CASE ~exists(own(w))
  <2>1. finish(w, "failed") /\ UNCHANGED <<delivery, outbox>>
    BY <1>5 DEF MarkFailed
  <2>2. WorkerTyped' /\ JobsTyped' /\ Leaves(w)
    BY <1>1, <2>1, LeavesTyped
  <2>3. ClaimsCounted'
    BY <1>1, <1>5, <2>1, <2>2, LeavesCounted DEF exists
  <2> QED BY <1>3, <2>1, <2>2, <2>3, Wider
<1> QED BY <1>4, <1>5

LEMMA BeginTyped == \A w \in Workers : Typed /\ Grown /\ BeginMark(w) => Typed'
<1> SUFFICES ASSUME NEW w \in Workers, Typed, Grown, BeginMark(w) PROVE Typed'
  OBVIOUS
<1> USE DEF Typed
<1>1. ~at(w, "idle") /\ worker[w].job \in Jobs' /\ own(w) \in Deliveries
  BY WorkerKinds, Wider DEF BeginMark, ends, at
<1>2. UNCHANGED <<event, delivery, outbox, faults, pass, replay, upkeep, skewed, strayed>>
  BY DEF BeginMark
<1>3. EventTyped' /\ DeliveryTyped' /\ OutboxTyped' /\ RestTyped' /\ FaultsTyped'
  BY <1>2, Wider DEF EventTyped, RestTyped, Grown
<1>4. CASE exists(own(w))
  <2> DEFINE others == {delivery[d].status : d \in Deliveries \ {own(w)}}
  <2>1. PICK outcome \in Terminal :
           worker' = [worker EXCEPT ![w] =
              [pc |-> "commit", job |-> @.job, outcome |-> outcome,
               status |-> calculateEventStatus(others \cup {outcome})]]
    BY <1>4 DEF BeginMark
  <2>2. calculateEventStatus(others \cup {outcome}) \in {"PROCESSING", "DONE", "FAILED"}
    BY DEF calculateEventStatus
  <2> DEFINE mark == [pc |-> "commit", job |-> worker[w].job, outcome |-> outcome,
                      status |-> calculateEventStatus(others \cup {outcome})]
  <2>3. mark \in Marks' /\ mark.pc = "commit" /\ mark.job = worker[w].job
    BY <1>1, <2>2 DEF Marks
  <2>4. worker' = [worker EXCEPT ![w] = mark]
    BY <2>1
  <2> HIDE DEF mark
  <2>5. Busy \subseteq Busy' /\ Marks \subseteq Marks'
    BY Wider DEF Busy, Marks
  <2>6. /\ worker'[w] = mark
        /\ \A v \in Workers : v # w => worker'[v] = worker[v]
    BY <2>4 DEF WorkerTyped
  <2>7. WorkerTyped' /\ JobsTyped'
    BY <2>3, <2>4, <2>5, <1>4, Wider DEF BeginMark, WorkerTyped
  <2>8. ClaimsCounted'
    BY <1>2, <2>3, <2>6, Attending, CountedKept
  <2> QED BY <1>3, <2>7, <2>8
<1>5. CASE ~exists(own(w))
  <2>1. finish(w, "failed")
    BY <1>5 DEF BeginMark
  <2>2. WorkerTyped' /\ JobsTyped' /\ Leaves(w)
    BY <1>1, <2>1, LeavesTyped
  <2>3. ClaimsCounted'
    BY <1>1, <1>2, <1>5, <2>2, LeavesCounted DEF exists
  <2> QED BY <1>3, <2>2, <2>3
<1> QED BY <1>4, <1>5

LEMMA CommitTyped == \A w \in Workers : Typed /\ Grown /\ CommitMark(w) => Typed'
<1> SUFFICES ASSUME NEW w \in Workers, Typed, Grown, CommitMark(w) PROVE Typed'
  OBVIOUS
<1> USE DEF Typed
<1>1. /\ ~at(w, "idle") /\ own(w) \in Deliveries /\ worker[w].outcome \in Terminal
      /\ worker[w].outcome \in DeliveryStatuses /\ worker[w].status \in EventStatuses
  BY WorkerKinds DEF CommitMark, at, Terminal, DeliveryStatuses, EventStatuses
<1>2. update(own(w), worker[w].outcome) /\ updateEvent(worker[w].status) /\ (return(w) \/ throw(w))
  BY DEF CommitMark
<1>3. OutboxTyped' /\ RestTyped' /\ FaultsTyped'
  BY Wider DEF CommitMark, RestTyped, Grown
<1>4. WorkerTyped' /\ JobsTyped' /\ Leaves(w)
  BY <1>1, <1>2, LeavesTyped
<1>5. /\ DeliveryTyped' /\ delivery'[own(w)].status = worker[w].outcome
      /\ \A d \in Deliveries : d # own(w) => delivery'[d] = delivery[d]
  BY <1>1, <1>2, UpdateTyped
<1>6. ClaimsCounted'
  <2>1. delivery'[own(w)].status # "PROCESSING"
    BY <1>1, <1>5 DEF Terminal
  <2> QED BY <1>1, <1>4, <1>5, <2>1, LeavesCounted
<1> QED BY <1>1, <1>2, <1>3, <1>4, <1>5, <1>6, UpdateEventTyped

LEMMA ThrowTyped == \A w \in Workers : Typed /\ Grown /\ Throw(w) => Typed'
<1> SUFFICES ASSUME NEW w \in Workers, Typed, Grown, Throw(w) PROVE Typed'
  OBVIOUS
<1> USE DEF Typed
<1>1. ~at(w, "idle") /\ own(w) \in Deliveries /\ throw(w)
  BY WorkerKinds DEF Throw
<1>2. UNCHANGED <<event, delivery, outbox>> /\ faults < faults'
  BY <1>1 DEF Throw, throw, fault, FaultsTyped
<1>3. RestTyped'
  <2>1. upkeep' \in {"done", "due", "lapsed"}
    BY DEF Throw, missed, RestTyped
  <2> QED BY <2>1 DEF Throw, RestTyped
<1>4. WorkerTyped' /\ JobsTyped' /\ Leaves(w)
  BY <1>1, LeavesTyped
<1>5. ClaimsCounted'
  BY <1>1, <1>2, <1>4, LeavesCounted
<1> QED BY <1>2, <1>3, <1>4, <1>5, Wider DEF EventTyped, Grown

LEMMA ReplayTyped ==
    \A d \in Deliveries : Typed /\ Grown /\ (ReplayCheck(d) \/ ReplayReset(d)) => Typed'
<1> SUFFICES ASSUME NEW d \in Deliveries, Typed, Grown, ReplayCheck(d) \/ ReplayReset(d)
             PROVE  Typed'
  OBVIOUS
<1> USE DEF Typed
<1>1. UNCHANGED <<jobs, worker, faults>>
  BY DEF ReplayCheck, ReplayReset
<1>2. JobsTyped' /\ WorkerTyped' /\ FaultsTyped'
  BY <1>1, Wider DEF Grown
<1>3. \A c \in Deliveries : delivery'[c] = delivery[c] => (attended(c) => attended(c)')
  BY <1>1 DEF attended, own, row, expected
<1>4. CASE ReplayCheck(d)
  <2>1. replay.count + 1 \in 0..MaxReplays
    BY <1>4 DEF ReplayCheck, RestTyped
  <2>2. replay' \in [read : SUBSET Deliveries, reset : SUBSET Deliveries, count : 0..MaxReplays]
    BY <1>4, <2>1 DEF ReplayCheck, RestTyped
  <2>3. RestTyped'
    BY <1>4, <2>2, Zenon DEF ReplayCheck, RestTyped
  <2>4. UNCHANGED <<event, delivery, outbox>>
    BY <1>4 DEF ReplayCheck
  <2>5. ClaimsCounted'
    BY <1>3, <2>4, CountedKept
  <2> QED BY <1>2, <2>3, <2>4, <2>5, Wider DEF EventTyped
<1>5. CASE ReplayReset(d)
  <2>1. replay' \in [read : SUBSET Deliveries, reset : SUBSET Deliveries, count : 0..MaxReplays]
    BY <1>5 DEF ReplayReset, RestTyped
  <2>2. skewed' \in BOOLEAN /\ strayed' \subseteq Deliveries
    BY <1>5 DEF ReplayReset, RestTyped
  <2>3. RestTyped'
    BY <1>5, <2>1, <2>2 DEF ReplayReset, RestTyped
  <2>4. CASE ~exists(d)
    <3>1. UNCHANGED <<event, delivery, outbox>>
      BY <1>5, <2>4 DEF ReplayReset
    <3>2. ClaimsCounted'
      BY <1>3, <3>1, CountedKept
    <3> QED BY <1>2, <2>3, <3>1, <3>2, Wider DEF EventTyped
  <2>5. CASE exists(d)
    <3>1. resetForReplay(d)
      BY <1>5, <2>5 DEF ReplayReset
    <3>2. 0 \in 0..MaxAge /\ 0 \in Attempts' /\ 1 \in Attempts' \ {0}
      <4>1. faults' \in Nat
        BY DEF Grown, FaultsTyped
      <4>2. 1 \in 1..(MaxAttempts + faults') /\ 0 \in 0..(MaxAttempts + faults')
        BY <4>1, AttemptsFacts, Zenon
      <4> QED BY <4>2 DEF MaxAge, Attempts
    <3>3. /\ DeliveryTyped' /\ delivery'[d].status = "PENDING"
          /\ \A c \in Deliveries : c # d => delivery'[c] = delivery[c]
      BY <3>1, <3>2, Wider DEF resetForReplay, DeliveryTyped, DeliveryStatuses
    <3>4. EventTyped' /\ OutboxTyped'
      BY <3>1, <3>2, UpdateEventTyped, Created DEF resetForReplay, EventStatuses
    <3>5. ClaimsCounted'
      <4> SUFFICES ASSUME NEW c \in Deliveries, delivery'[c].status = "PROCESSING"
                   PROVE  delivery'[c] = delivery[c]
        BY <1>3, CountedKept
      <4> QED BY <3>3
    <3> QED BY <1>2, <2>3, <3>3, <3>4, <3>5
  <2> QED BY <2>4, <2>5
<1> QED BY <1>4, <1>5

(* The recovery of a claimed delivery counts the attempt that nobody ends.     *)
LEMMA RecoverStaleTyped ==
    \A d \in Deliveries : Typed /\ Grown /\ recoverStaleDelivery(d) => Typed'
<1> SUFFICES ASSUME NEW d \in Deliveries, Typed, Grown, recoverStaleDelivery(d) PROVE Typed'
  OBVIOUS
<1> USE DEF Typed
<1>1. /\ update(d, "FAILED") /\ create(d, delivery[d].attempts + 1)
      /\ delivery[d].status = "PROCESSING"
      /\ UNCHANGED <<event, jobs, worker, pass, replay, upkeep, skewed, strayed>>
  BY DEF recoverStaleDelivery
<1>2. delivery[d].attempts + 1 \in Attempts' \ {0}
  <2>1. delivery[d].attempts \in 0..(MaxAttempts + faults)
    BY DEF DeliveryTyped, Attempts
  <2>2. attended(d) => faults' = faults + 1
    BY DEF recoverStaleDelivery, fault
  <2>3. attended(d) \/ delivery[d].attempts < MaxAttempts + faults
    BY <1>1 DEF ClaimsCounted
  <2> QED BY <2>1, <2>2, <2>3 DEF Attempts, Grown, FaultsTyped
<1>3. /\ DeliveryTyped' /\ delivery'[d].status = "FAILED"
      /\ \A c \in Deliveries : c # d => delivery'[c] = delivery[c]
  BY <1>1, UpdateTyped DEF DeliveryStatuses
<1>4. OutboxTyped'
  BY <1>1, <1>2, Created
<1>5. ClaimsCounted'
  <2> SUFFICES ASSUME NEW c \in Deliveries, delivery'[c].status = "PROCESSING"
               PROVE  delivery'[c] = delivery[c] /\ (attended(c) => attended(c)')
    BY CountedKept
  <2>1. delivery'[c] = delivery[c]
    BY <1>3
  <2> QED BY <1>1, <2>1 DEF attended, own, row, expected
<1> QED BY <1>1, <1>3, <1>4, <1>5, Wider DEF EventTyped, RestTyped, Grown

LEMMA MaintenanceTyped == Typed /\ Grown /\ Maintenance => Typed'
<1> SUFFICES ASSUME Typed, Grown, Maintenance PROVE Typed'
  OBVIOUS
<1> USE DEF Typed
<1>1. CASE \E d \in Deliveries : recoverStaleDelivery(d)
  BY <1>1, RecoverStaleTyped
<1>2. ASSUME UNCHANGED <<jobs, worker, faults>>, RestTyped'
      PROVE  JobsTyped' /\ WorkerTyped' /\ FaultsTyped' /\ RestTyped'
  BY <1>2, Wider DEF Grown
<1>3. ASSUME UNCHANGED worker,
             \A d \in Deliveries : delivery'[d].status = "PROCESSING" => delivery'[d] = delivery[d]
      PROVE  ClaimsCounted'
  <2>1. ASSUME NEW d \in Deliveries, delivery'[d] = delivery[d] PROVE attended(d) => attended(d)'
    BY <1>3, <2>1 DEF attended, own, row, expected
  <2> QED BY <1>3, <2>1, CountedKept
<1>4. CASE cleanupPublishedOutboxRows
  <2>1. OutboxTyped'
    BY <1>4, Wider DEF cleanupPublishedOutboxRows, without, OutboxTyped
  <2>2. RestTyped' /\ UNCHANGED <<event, delivery, jobs, worker, faults>>
    BY <1>4 DEF cleanupPublishedOutboxRows, RestTyped
  <2> QED BY <1>2, <1>3, <2>1, <2>2, Wider DEF EventTyped
<1>5. CASE cleanupOldEvents
  <2>1. RestTyped' /\ UNCHANGED <<jobs, worker, faults>>
    BY <1>5 DEF cleanupOldEvents, RestTyped
  <2>2. CASE RetentionDays > 0 /\ expired
    <3>1. /\ event' = [event EXCEPT !.status = "GONE"]
          /\ delivery' = [d \in Deliveries |-> [delivery[d] EXCEPT !.status = "GONE"]]
          /\ outbox' = without(outbox, DOMAIN outbox)
      BY <1>5, <2>2 DEF cleanupOldEvents
    <3>2. EventTyped' /\ OutboxTyped'
      BY <3>1 DEF EventTyped, EventStatuses, OutboxTyped, without
    <3>3. DeliveryTyped' /\ \A d \in Deliveries : delivery'[d].status = "GONE"
      BY <3>1, Wider DEF DeliveryTyped, DeliveryStatuses
    <3> QED BY <1>2, <1>3, <2>1, <3>2, <3>3
  <2>3. CASE ~(RetentionDays > 0 /\ expired)
    <3>1. UNCHANGED <<event, delivery, outbox>>
      BY <1>5, <2>3 DEF cleanupOldEvents
    <3> QED BY <1>2, <1>3, <2>1, <3>1, Wider DEF EventTyped
  <2> QED BY <2>2, <2>3
<1>6. CASE recoverStrandedPublishedOutbox
  <2>1. ASSUME NEW r \in DOMAIN outbox PROVE outbox'[r] \in Rows
    <3>1. outbox[r] \in Rows
      BY DEF OutboxTyped
    <3>2. CASE stranded(r)
      <4>1. outbox[r].tries + 1 \in 0..MaxFaults
        <5>1. outbox[r].tries < MaxFaults
          BY <1>6, <3>2 DEF recoverStrandedPublishedOutbox
        <5>2. outbox[r].tries \in 0..MaxFaults
          BY <3>1 DEF Rows
        <5> QED BY <5>1, <5>2
      <4>2. outbox'[r] = [outbox[r] EXCEPT !.published = FALSE, !.tries = @ + 1]
        BY <1>6, <3>2 DEF recoverStrandedPublishedOutbox
      <4> QED BY <3>1, <4>1, <4>2 DEF Rows
    <3>3. CASE ~stranded(r)
      BY <1>6, <3>1, <3>3 DEF recoverStrandedPublishedOutbox
    <3> QED BY <3>2, <3>3
  <2>2. OutboxTyped'
    BY <1>6, <2>1, Wider DEF recoverStrandedPublishedOutbox, OutboxTyped
  <2>3. RestTyped' /\ UNCHANGED <<event, delivery, jobs, worker, faults>>
    BY <1>6 DEF recoverStrandedPublishedOutbox, RestTyped
  <2> QED BY <1>2, <1>3, <2>2, <2>3, Wider DEF EventTyped
<1>7. CASE GiveUp
  <2>1. RestTyped' /\ UNCHANGED <<event, delivery, outbox, jobs, worker, faults>>
    BY <1>7 DEF GiveUp, RestTyped
  <2> QED BY <1>2, <1>3, <2>1, Wider DEF EventTyped
<1> QED BY <1>1, <1>4, <1>5, <1>6, <1>7 DEF Maintenance

LEMMA LossTyped == Typed /\ Grown /\ LoseJob => Typed'
<1> SUFFICES ASSUME Typed, Grown, LoseJob PROVE Typed'
  OBVIOUS
<1> USE DEF Typed
<1>1. PICK j \in DOMAIN jobs :
          /\ missed(j)
          /\ jobs' = without(jobs, {j}) \/ jobs' = [jobs EXCEPT ![j] = "failed"]
  BY DEF LoseJob
<1>2. JobsTyped'
  BY <1>1, Wider DEF without, JobsTyped, JobStates
<1>3. RestTyped'
  BY <1>1 DEF LoseJob, RestTyped, missed
<1>4. UNCHANGED <<event, delivery, outbox, worker>>
  BY DEF LoseJob
<1>5. ClaimsCounted'
  BY <1>4, CountedKept DEF attended, own, row, expected
<1> QED BY <1>2, <1>3, <1>4, <1>5, Wider DEF EventTyped, Grown

LEMMA DayTyped == Typed /\ Grown /\ Day => Typed'
<1> SUFFICES ASSUME Typed, Grown, Day PROVE Typed'
  OBVIOUS
<1> USE DEF Typed
<1>1. MaxAge \in Nat /\ UNCHANGED <<jobs, worker, pass, replay, faults, skewed, strayed>>
  BY DEF MaxAge, Day
<1>2. EventTyped'
  BY <1>1, OlderFacts DEF Day, EventTyped
<1>3. /\ DeliveryTyped'
      /\ \A d \in Deliveries : /\ delivery'[d].status = delivery[d].status
                               /\ delivery'[d].attempts = delivery[d].attempts
  <2>1. ASSUME NEW d \in Deliveries PROVE older(delivery[d].age, MaxAge) \in 0..MaxAge
    BY <1>1, OlderFacts DEF DeliveryTyped
  <2> QED BY <2>1, Wider DEF Day, DeliveryTyped
<1>4. OutboxTyped'
  <2>1. ASSUME NEW r \in DOMAIN outbox PROVE outbox'[r] \in Rows
    <3>1. outbox[r] \in Rows /\ older(outbox[r].age, Week) \in 0..Week
      BY OlderFacts DEF OutboxTyped, Rows
    <3> QED BY <3>1 DEF Day, Rows
  <2> QED BY <2>1, Wider DEF Day, OutboxTyped
<1>5. ClaimsCounted'
  BY <1>1, <1>3, CountedKept DEF attended, own, row, expected
<1>6. RestTyped'
  <2>1. upkeep' \in {"done", "due", "lapsed"}
    BY DEF Day
  <2> QED BY <1>1, <2>1 DEF RestTyped
<1> QED BY <1>1, <1>2, <1>3, <1>4, <1>5, <1>6, Wider DEF Grown

LEMMA NextTyped == Typed /\ [Next]_vars => Typed'
<1> SUFFICES ASSUME Typed, [Next]_vars PROVE Typed'
  OBVIOUS
<1>1. Grown
  BY FaultsGrow DEF Typed
<1>2. CASE Publish \/ Maintenance \/ LoseJob \/ Day
  BY <1>1, <1>2, PublishTyped, MaintenanceTyped, LossTyped, DayTyped
<1>3. CASE \E w \in Workers : WorkerStep(w)
  BY <1>1, <1>3, FindTyped, RefusalTyped, ClaimTyped, FailureTyped, BeginTyped, CommitTyped,
     ThrowTyped DEF WorkerStep
<1>4. CASE \E d \in Deliveries : ReplayCheck(d) \/ ReplayReset(d)
  BY <1>1, <1>4, ReplayTyped
<1>5. CASE UNCHANGED vars
  <2>1. UNCHANGED <<event, delivery, outbox, jobs, worker, pass, replay, faults, upkeep, skewed, strayed>>
    BY <1>5 DEF vars
  <2>2. ClaimsCounted'
    BY <1>1, <2>1, CountedKept DEF Typed, attended, own, row, expected
  <2> QED BY <1>1, <2>1, <2>2, Wider DEF Typed, EventTyped, RestTyped, Grown
<1> QED BY <1>2, <1>3, <1>4, <1>5 DEF Next

(* TypeCorrect: rows, jobs, workers and ages keep their types, whatever is     *)
(* deleted, lost, thrown or replayed: no attempt exceeds the maximum by more   *)
(* than the faults, and every job and row is of a delivery of the event.       *)
THEOREM TypeCorrect == Spec => []TypeOK
<1>1. Init => Typed
  BY InitTyped
<1>2. Typed /\ [Next]_vars => Typed'
  BY NextTyped
<1>3. Typed => TypeOK
  BY TypedIsTypeOK
<1> QED BY <1>1, <1>2, <1>3, PTL DEF Spec

-----------------------------------------------------------------------------
(* What a finished event knows: its deliveries have ended, and nothing has     *)
(* happened to them since.  What a transaction that will finish it has read    *)
(* still holds when it commits.                                                *)
FinishedRight ==
    ~skewed /\ event.status \in {"DONE", "FAILED"} =>
        \A d \in Deliveries : delivery[d].status \in Terminal /\ delivery[d].age >= event.age

Finishing(w) == at(w, "commit") /\ worker[w].status \in {"DONE", "FAILED"}

MarksRight ==
    ~skewed => \A w \in Workers : Finishing(w) =>
        \A d \in Deliveries : d # own(w) => delivery[d].status \in Terminal

FinishedInv == Typed /\ FinishedRight /\ MarksRight

(* A step that leaves the event and the deliveries alone, and begins to mark   *)
(* none.                                                                       *)
LEMMA FinishedKept ==
    ASSUME FinishedInv, UNCHANGED <<event, delivery, skewed>>,
           \A w \in Workers : Finishing(w)' => worker'[w] = worker[w]
    PROVE  FinishedRight' /\ MarksRight'
<1>1. FinishedRight'
  BY DEF FinishedInv, FinishedRight
<1>2. \A w \in Workers : Finishing(w)' => Finishing(w) /\ own(w)' = own(w)
  BY DEF Finishing, at, own, row
<1>3. MarksRight'
  BY <1>2 DEF FinishedInv, MarksRight
<1> QED BY <1>1, <1>3

(* A worker that leaves does not finish the event any more.                    *)
LEMMA LeavesFinished ==
    ASSUME NEW w \in Workers, Leaves(w), NEW v \in Workers, Finishing(v)'
    PROVE  v # w /\ worker'[v] = worker[v] /\ Finishing(v) /\ own(v)' = own(v)
<1>1. worker'[w].pc \in {"idle", "catch"}
  BY DEF Leaves, at, Idle
<1>2. v # w /\ worker'[v] = worker[v]
  BY <1>1 DEF Leaves, Finishing, at
<1> QED BY <1>2 DEF Finishing, at, own, row

(* A delivery that has not ended, unless its event or its transactions do not  *)
(* know it, belongs to an event under way that nobody finishes.                *)
LEMMA NotFinishing ==
    ASSUME FinishedInv, NEW d \in Deliveries, ~skewed, ~Locked(d),
           delivery[d].status \notin Terminal
    PROVE  event.status \notin {"DONE", "FAILED"} /\ \A w \in Workers : ~Finishing(w)
<1>1. event.status \notin {"DONE", "FAILED"}
  BY DEF FinishedInv, FinishedRight
<1>2. ASSUME NEW w \in Workers, Finishing(w) PROVE FALSE
  <2>1. own(w) # d
    BY <1>2 DEF Finishing, Locked, Marking
  <2> QED BY <1>2, <2>1 DEF FinishedInv, MarksRight
<1> QED BY <1>1, <1>2

(* The writers that match a delivery by its id: refusals and failures.         *)
LEMMA ReopenFinished ==
    ASSUME FinishedInv, NEW w \in Workers, own(w) \in Deliveries, ~Locked(own(w)), Leaves(w),
           skewed' = (skewed \/ reopens(own(w))), UNCHANGED event
    PROVE  FinishedRight' /\ MarksRight'
<1> SUFFICES ASSUME ~skewed' PROVE FinishedRight' /\ MarksRight'
  BY DEF FinishedRight, MarksRight
<1>1. ~skewed /\ ~reopens(own(w))
  OBVIOUS
<1>2. event.status \notin {"DONE", "FAILED"} /\ \A v \in Workers : ~Finishing(v)
  <2>1. CASE delivery[own(w)].status \notin Terminal
    BY <1>1, <2>1, NotFinishing
  <2>2. CASE delivery[own(w)].status \in Terminal
    BY <1>1, <2>2 DEF reopens, Finishing, Marking
  <2> QED BY <2>1, <2>2
<1>3. \A v \in Workers : ~Finishing(v)'
  BY <1>2, LeavesFinished
<1> QED BY <1>2, <1>3 DEF FinishedRight, MarksRight

LEMMA ClaimFinished ==
    \A w \in Workers : FinishedInv /\ Grown /\ Claim(w) => FinishedRight' /\ MarksRight'
<1> SUFFICES ASSUME NEW w \in Workers, FinishedInv, Grown, Claim(w)
             PROVE  FinishedRight' /\ MarksRight'
  OBVIOUS
<1> USE DEF FinishedInv, Typed
<1>1. ~at(w, "idle") /\ ~at(w, "commit") /\ own(w) \in Deliveries /\ ~Locked(own(w))
  BY WorkerKinds DEF Claim, at
<1>2. CASE /\ delivery[own(w)].status \in {"PENDING", "FAILED"}
           /\ delivery[own(w)].attempts = expected(w) - 1
  <2>1. /\ updateEvent("PROCESSING") /\ skewed' = (skewed /\ Marking # {})
        /\ goto(w, "send") \/ throw(w)
    BY <1>2 DEF Claim
  <2>2. event'.status = "PROCESSING"
    BY <2>1 DEF updateEvent
  <2>3. worker'[w].pc \in {"idle", "send"} /\ \A v \in Workers : v # w => worker'[v] = worker[v]
    <3>1. CASE goto(w, "send")
      BY <1>1, <3>1, GotoTyped DEF at
    <3>2. CASE throw(w)
      BY <1>1, <3>2, LeavesTyped DEF Leaves, Idle
    <3> QED BY <2>1, <3>1, <3>2
  <2>4. ASSUME NEW v \in Workers, Finishing(v)', ~skewed' PROVE FALSE
    <3>1. worker'[v] = worker[v]
      BY <2>3, <2>4 DEF Finishing, at
    <3>2. Finishing(v)
      BY <2>4, <3>1 DEF Finishing, at
    <3>3. ~skewed
      BY <2>1, <2>4, <3>2 DEF Finishing, Marking
    <3>4. delivery[own(w)].status \notin Terminal
      BY <1>2 DEF Terminal
    <3> QED BY <1>1, <3>2, <3>3, <3>4, NotFinishing
  <2> QED BY <2>2, <2>4 DEF FinishedRight, MarksRight
<1>3. CASE ~(/\ delivery[own(w)].status \in {"PENDING", "FAILED"}
             /\ delivery[own(w)].attempts = expected(w) - 1)
  <2>1. return(w) /\ UNCHANGED <<event, delivery, skewed>>
    BY <1>3 DEF Claim
  <2>2. Leaves(w)
    BY <1>1, <2>1, LeavesTyped
  <2> QED BY <2>1, <2>2, LeavesFinished, FinishedKept
<1> QED BY <1>2, <1>3

(* What a marking transaction has read of the others decides the status it     *)
(* will write.                                                                 *)
LEMMA BeginFinished ==
    \A w \in Workers : FinishedInv /\ Grown /\ BeginMark(w) => FinishedRight' /\ MarksRight'
<1> SUFFICES ASSUME NEW w \in Workers, FinishedInv, Grown, BeginMark(w)
             PROVE  FinishedRight' /\ MarksRight'
  OBVIOUS
<1> USE DEF FinishedInv, Typed
<1>1. ~at(w, "idle") /\ UNCHANGED <<event, delivery, skewed>>
  BY DEF BeginMark, ends, at
<1>2. CASE ~exists(own(w))
  <2>1. finish(w, "failed")
    BY <1>2 DEF BeginMark
  <2>2. Leaves(w)
    BY <1>1, <2>1, LeavesTyped
  <2> QED BY <1>1, <2>2, LeavesFinished, FinishedKept
<1>3. CASE exists(own(w))
  <2> DEFINE others == {delivery[d].status : d \in Deliveries \ {own(w)}}
  <2>1. PICK outcome \in Terminal :
           worker' = [worker EXCEPT ![w] =
              [pc |-> "commit", job |-> @.job, outcome |-> outcome,
               status |-> calculateEventStatus(others \cup {outcome})]]
    BY <1>3 DEF BeginMark
  <2>2. own(w)' = own(w) /\ worker'[w].status = calculateEventStatus(others \cup {outcome})
    BY <2>1 DEF own, row, WorkerTyped
  <2>3. \A v \in Workers : v # w => worker'[v] = worker[v]
    BY <2>1
  <2>4. ASSUME ~skewed', NEW v \in Workers, Finishing(v)',
               NEW d \in Deliveries, d # own(v)'
        PROVE  delivery'[d].status \in Terminal
    <3>1. CASE v = w
      <4>1. others \cup {outcome} \subseteq Terminal
        BY <2>2, <2>4, <3>1 DEF calculateEventStatus, Finishing
      <4>2. delivery[d].status \in others
        BY <2>2, <2>4, <3>1
      <4> QED BY <1>1, <4>1, <4>2
    <3>2. CASE v # w
      <4>1. Finishing(v) /\ own(v)' = own(v)
        BY <2>3, <2>4, <3>2 DEF Finishing, at, own, row
      <4> QED BY <1>1, <2>4, <4>1 DEF MarksRight
    <3> QED BY <3>1, <3>2
  <2> HIDE DEF others
  <2>5. FinishedRight'
    BY <1>1 DEF FinishedRight
  <2>6. MarksRight'
    BY <2>4 DEF MarksRight
  <2> QED BY <2>5, <2>6
<1> QED BY <1>2, <1>3

LEMMA CommitFinished ==
    \A w \in Workers : FinishedInv /\ Grown /\ CommitMark(w) => FinishedRight' /\ MarksRight'
<1> SUFFICES ASSUME NEW w \in Workers, FinishedInv, Grown, CommitMark(w)
             PROVE  FinishedRight' /\ MarksRight'
  OBVIOUS
<1> USE DEF FinishedInv, Typed
<1>1. /\ ~at(w, "idle") /\ own(w) \in Deliveries /\ worker[w].outcome \in Terminal
      /\ worker[w].status \in EventStatuses /\ at(w, "commit")
  BY WorkerKinds DEF CommitMark, at, EventStatuses
<1>2. update(own(w), worker[w].outcome) /\ updateEvent(worker[w].status)
      /\ (return(w) \/ throw(w)) /\ UNCHANGED skewed
  BY DEF CommitMark
<1>3. /\ DeliveryTyped'
      /\ delivery'[own(w)].status = worker[w].outcome
      /\ \A c \in Deliveries : c # own(w) => delivery'[c] = delivery[c]
  BY <1>1, <1>2, UpdateTyped DEF DeliveryStatuses
<1>4. event'.status = worker[w].status /\ event'.age = 0
  BY <1>1, <1>2, UpdateEventTyped
<1>5. FinishedRight'
  <2> SUFFICES ASSUME ~skewed', event'.status \in {"DONE", "FAILED"}, NEW d \in Deliveries
               PROVE  delivery'[d].status \in Terminal /\ delivery'[d].age >= event'.age
    BY DEF FinishedRight
  <2>1. delivery'[d].age >= 0
    BY <1>3 DEF DeliveryTyped, MaxAge
  <2>2. CASE d = own(w)
    BY <1>1, <1>3, <1>4, <2>1, <2>2
  <2>3. CASE d # own(w)
    <3>1. Finishing(w)
      BY <1>1, <1>4 DEF Finishing
    <3> QED BY <1>2, <1>3, <1>4, <2>1, <2>3, <3>1 DEF MarksRight
  <2> QED BY <2>2, <2>3
<1>6. Leaves(w)
  BY <1>1, <1>2, LeavesTyped
<1>7. MarksRight'
  <2> SUFFICES ASSUME ~skewed', NEW v \in Workers, Finishing(v)',
                      NEW d \in Deliveries, d # own(v)'
               PROVE  delivery'[d].status \in Terminal
    BY DEF MarksRight
  <2>1. Finishing(v) /\ own(v)' = own(v)
    BY <1>6, LeavesFinished
  <2> QED BY <1>1, <1>2, <1>3, <2>1 DEF MarksRight
<1> QED BY <1>5, <1>7

LEMMA WorkerFinished ==
    \A w \in Workers : FinishedInv /\ Grown /\ WorkerStep(w) => FinishedRight' /\ MarksRight'
<1> SUFFICES ASSUME NEW w \in Workers, FinishedInv, Grown, WorkerStep(w)
             PROVE  FinishedRight' /\ MarksRight'
  OBVIOUS
<1> USE DEF FinishedInv, Typed
<1>1. CASE Find(w)
  <2>1. PICK j \in DOMAIN jobs :
            \/ worker' = worker
            \/ worker' = [worker EXCEPT ![w] = [pc |-> "claim", job |-> j]]
    BY <1>1 DEF Find
  <2>2. \A v \in Workers : Finishing(v)' => worker'[v] = worker[v]
    BY <2>1 DEF Finishing, at, WorkerTyped
  <2>3. UNCHANGED <<event, delivery, skewed>>
    BY <1>1 DEF Find
  <2> QED BY <2>2, <2>3, FinishedKept
<1>2. CASE MarkRateLimited(w) \/ MarkFailed(w)
  <2>1. ~at(w, "idle") /\ own(w) \in Deliveries /\ ~Locked(own(w))
    BY <1>2, WorkerKinds DEF MarkRateLimited, MarkFailed, at
  <2>2. skewed' = (skewed \/ reopens(own(w))) /\ UNCHANGED event
    BY <1>2 DEF MarkRateLimited, MarkFailed
  <2>3. return(w) \/ throw(w) \/ finish(w, "failed")
    BY <1>2 DEF MarkRateLimited, MarkFailed
  <2>4. Leaves(w)
    BY <2>1, <2>3, LeavesTyped
  <2> QED BY <2>1, <2>2, <2>4, ReopenFinished
<1>3. CASE Throw(w)
  <2>1. throw(w) /\ ~at(w, "idle") /\ UNCHANGED <<event, delivery, skewed>>
    BY <1>3 DEF Throw
  <2>2. Leaves(w)
    BY <2>1, LeavesTyped
  <2> QED BY <2>1, <2>2, LeavesFinished, FinishedKept
<1> QED BY <1>1, <1>2, <1>3, ClaimFinished, BeginFinished, CommitFinished DEF WorkerStep

LEMMA OthersFinished ==
    FinishedInv /\ (Publish \/ Maintenance \/ LoseJob \/ Day) => FinishedRight' /\ MarksRight'
<1> SUFFICES ASSUME FinishedInv, Publish \/ Maintenance \/ LoseJob \/ Day
             PROVE  FinishedRight' /\ MarksRight'
  OBVIOUS
<1> USE DEF FinishedInv, Typed
<1>1. UNCHANGED worker /\ UNCHANGED skewed
  BY DEF Publish, Maintenance, cleanupPublishedOutboxRows, cleanupOldEvents, recoverStaleDelivery,
         recoverStrandedPublishedOutbox, GiveUp, LoseJob, Day
<1>2. CASE UNCHANGED <<event, delivery>>
  BY <1>1, <1>2, FinishedKept
<1>3. CASE cleanupOldEvents /\ RetentionDays > 0 /\ expired
  <2>1. event'.status = "GONE" /\ Marking = {}
    BY <1>3 DEF cleanupOldEvents, EventTyped
  <2>2. \A w \in Workers : ~Finishing(w)'
    BY <1>1, <2>1 DEF Finishing, Marking, at
  <2> QED BY <2>1, <2>2 DEF FinishedRight, MarksRight
<1>4. CASE \E d \in Deliveries : recoverStaleDelivery(d)
  <2>1. PICK d \in Deliveries : recoverStaleDelivery(d)
    BY <1>4
  <2>2. delivery[d].status \notin Terminal /\ ~Locked(d) /\ UNCHANGED event
    BY <2>1 DEF recoverStaleDelivery, Terminal
  <2>3. ~skewed => event.status \notin {"DONE", "FAILED"} /\ \A w \in Workers : ~Finishing(w)
    BY <2>2, NotFinishing
  <2>4. \A w \in Workers : Finishing(w)' => Finishing(w)
    BY <1>1 DEF Finishing, at
  <2> QED BY <1>1, <2>2, <2>3, <2>4 DEF FinishedRight, MarksRight
<1>5. CASE Day
  <2>1. \A w \in Workers : ~Finishing(w)'
    BY <1>1, <1>5 DEF Day, Finishing, Marking, at
  <2>2. MarksRight'
    BY <2>1 DEF MarksRight
  <2>3. FinishedRight'
    <3> SUFFICES ASSUME ~skewed', event'.status \in {"DONE", "FAILED"}, NEW d \in Deliveries
                 PROVE  delivery'[d].status \in Terminal /\ delivery'[d].age >= event'.age
      BY DEF FinishedRight
    <3>1. /\ event'.status = event.status /\ event'.age = older(event.age, MaxAge)
          /\ delivery'[d].status = delivery[d].status
          /\ delivery'[d].age = older(delivery[d].age, MaxAge)
      BY <1>5 DEF Day, EventTyped, DeliveryTyped
    <3>2. /\ delivery[d].status \in Terminal /\ delivery[d].age >= event.age
      BY <1>1, <3>1 DEF FinishedRight
    <3>3. event.age \in 0..MaxAge /\ delivery[d].age \in 0..MaxAge /\ MaxAge \in Nat
      BY DEF EventTyped, DeliveryTyped, MaxAge
    <3>4. /\ older(event.age, MaxAge) <= older(delivery[d].age, MaxAge)
          /\ older(event.age, MaxAge) \in 0..MaxAge /\ older(delivery[d].age, MaxAge) \in 0..MaxAge
      BY <3>2, <3>3, OlderFacts
    <3> QED BY <3>1, <3>2, <3>4
  <2> QED BY <2>2, <2>3
<1> QED BY <1>2, <1>3, <1>4, <1>5 DEF Publish, Maintenance, cleanupPublishedOutboxRows,
             cleanupOldEvents, recoverStrandedPublishedOutbox, GiveUp, LoseJob

LEMMA ReplayFinished ==
    \A d \in Deliveries :
        FinishedInv /\ (ReplayCheck(d) \/ ReplayReset(d)) => FinishedRight' /\ MarksRight'
<1> SUFFICES ASSUME NEW d \in Deliveries, FinishedInv, ReplayCheck(d) \/ ReplayReset(d)
             PROVE  FinishedRight' /\ MarksRight'
  OBVIOUS
<1>1. UNCHANGED worker
  BY DEF ReplayCheck, ReplayReset
<1>2. CASE UNCHANGED <<event, delivery, skewed>>
  BY <1>1, <1>2, FinishedKept
<1>3. CASE ReplayReset(d) /\ exists(d)
  <2>1. event'.status = "PROCESSING" /\ skewed' = (Marking # {})
    BY <1>3 DEF ReplayReset, resetForReplay, updateEvent
  <2>2. ~skewed' => \A w \in Workers : ~Finishing(w)'
    BY <1>1, <2>1 DEF Finishing, Marking, at
  <2> QED BY <2>1, <2>2 DEF FinishedRight, MarksRight
<1> QED BY <1>2, <1>3 DEF ReplayCheck, ReplayReset

LEMMA FinishedStep == FinishedInv /\ [Next]_vars => FinishedInv'
<1> SUFFICES ASSUME FinishedInv, [Next]_vars PROVE FinishedInv'
  OBVIOUS
<1>1. Typed'
  BY NextTyped DEF FinishedInv
<1>2. CASE Next
  <2>1. Grown
    BY FaultsGrow DEF FinishedInv, Typed
  <2> QED BY <1>1, <1>2, <2>1, WorkerFinished, OthersFinished, ReplayFinished DEF Next, FinishedInv
<1>3. CASE UNCHANGED vars
  <2>1. UNCHANGED <<event, delivery, skewed, worker>>
    BY <1>3 DEF vars
  <2> QED BY <1>1, <2>1, FinishedKept DEF FinishedInv
<1> QED BY <1>2, <1>3

LEMMA InitFinished == Init => FinishedInv
BY InitTyped DEF Init, FinishedInv, FinishedRight, MarksRight, Finishing, at, Idle

(* Only the clean-up deletes, and only what it finds expired.                  *)
LEMMA OnlyExpired == Typed /\ [Next]_vars /\ Deleted => expired
<1> SUFFICES ASSUME Typed, [Next]_vars, Deleted PROVE expired
  OBVIOUS
<1> USE DEF Typed, Deleted
<1>1. event'.status # event.status
  OBVIOUS
<1>2. CASE Publish \/ Maintenance \/ LoseJob \/ Day
  BY <1>1, <1>2 DEF Publish, Maintenance, cleanupPublishedOutboxRows, cleanupOldEvents,
         recoverStaleDelivery, recoverStrandedPublishedOutbox, GiveUp, LoseJob, Day, EventTyped
<1>3. CASE \E w \in Workers : WorkerStep(w)
  <2>1. PICK w \in Workers : WorkerStep(w)
    BY <1>3
  <2>2. at(w, "commit") => worker[w].status # "GONE"
    BY WorkerKinds
  <2>3. \/ UNCHANGED event
        \/ updateEvent("PROCESSING")
        \/ at(w, "commit") /\ updateEvent(worker[w].status)
    BY <2>1 DEF WorkerStep, Find, MarkRateLimited, Claim, MarkFailed, BeginMark, CommitMark, Throw
  <2> QED BY <1>1, <2>2, <2>3 DEF updateEvent
<1>4. CASE \E d \in Deliveries : ReplayCheck(d) \/ ReplayReset(d)
  <2>1. UNCHANGED event \/ updateEvent("PROCESSING")
    BY <1>4 DEF ReplayCheck, ReplayReset, resetForReplay
  <2> QED BY <1>1, <2>1 DEF updateEvent
<1>5. CASE UNCHANGED vars
  BY <1>1, <1>5 DEF vars
<1> QED BY <1>2, <1>3, <1>4, <1>5 DEF Next

(* EndedDeleted: for any number of deliveries, workers, replays, refusals and  *)
(* faults, the event that the clean-up deletes has only deliveries that have   *)
(* ended, unless a replay met a transaction that finishes it, or an attempt    *)
(* that had been overtaken, or marked a success already, was recorded late.    *)
THEOREM EndedDeleted == Spec => OnlyFinishedDeleted
<1>1. FinishedInv /\ [Next]_vars
        => [Deleted /\ ~skewed => \A d \in Deliveries : delivery[d].status \in Terminal]_vars
  <2> SUFFICES ASSUME FinishedInv, [Next]_vars, Deleted, ~skewed
               PROVE  \A d \in Deliveries : delivery[d].status \in Terminal
    OBVIOUS
  <2>1. expired
    BY OnlyExpired DEF FinishedInv
  <2> QED BY <2>1 DEF FinishedInv, FinishedRight, expired
<1> QED BY <1>1, InitFinished, FinishedStep, PTL DEF Spec, OnlyFinishedDeleted

(* RestedDeleted: and since anything last happened to any of them, the         *)
(* retention days have passed.                                                 *)
THEOREM RestedDeleted == Spec => HistoryKept
<1>1. FinishedInv /\ [Next]_vars
        => [Deleted /\ ~skewed => \A d \in Deliveries : delivery[d].age >= RetentionDays]_vars
  <2> SUFFICES ASSUME FinishedInv, [Next]_vars, Deleted, ~skewed, NEW d \in Deliveries
               PROVE  delivery[d].age >= RetentionDays
    OBVIOUS
  <2>1. expired
    BY OnlyExpired DEF FinishedInv
  <2>2. delivery[d].age >= event.age /\ event.age >= RetentionDays
    BY <2>1 DEF FinishedInv, FinishedRight, expired
  <2>3. delivery[d].age \in Int /\ event.age \in Int
    BY DEF FinishedInv, Typed, DeliveryTyped, EventTyped
  <2> QED BY <2>2, <2>3
<1> QED BY <1>1, InitFinished, FinishedStep, PTL DEF Spec, HistoryKept

-----------------------------------------------------------------------------
(* Rows, jobs and workers.  A row that is published again asks for a job under *)
(* a new id, and a job that waits or is worked on is the one its row asks for; *)
(* the jobs workers hold are theirs alone.                                     *)
jobOf(r) == [row |-> r, attempt |-> outbox[r].attempt, tries |-> outbox[r].tries]

NumberedJob(j) ==
    j.row \in DOMAIN outbox =>
        /\ j.tries <= outbox[j.row].tries
        /\ ~outbox[j.row].published => j.tries < outbox[j.row].tries
        /\ jobs[j] \in {"waiting", "active"} => j = jobOf(j.row)

JobsNumbered == \A j \in DOMAIN jobs : NumberedJob(j)
Held ==
    /\ \A w \in Workers : ~at(w, "idle") =>
          worker[w].job \in DOMAIN jobs /\ jobs[worker[w].job] = "active"
    /\ \A v, w \in Workers : v # w /\ ~at(v, "idle") /\ ~at(w, "idle") => worker[v].job # worker[w].job

TablesInv == Typed /\ JobsNumbered /\ Held

LEMMA RowsTyped ==
    ASSUME OutboxTyped, NEW r \in DOMAIN outbox
    PROVE  /\ r \in RowIds /\ r[1] \in Deliveries
           /\ outbox[r].attempt \in Attempts \ {0} /\ outbox[r].published \in BOOLEAN
           /\ outbox[r].age \in 0..Week /\ outbox[r].tries \in 0..MaxFaults
           /\ jobOf(r) \in Jobs
           /\ jobOf(r).row = r /\ jobOf(r).attempt = outbox[r].attempt
           /\ jobOf(r).tries = outbox[r].tries
<1>1. outbox[r] \in Rows /\ r \in RowIds
  BY DEF OutboxTyped
<1>2. /\ outbox[r].attempt \in Attempts \ {0} /\ outbox[r].published \in BOOLEAN
      /\ outbox[r].age \in 0..Week /\ outbox[r].tries \in 0..MaxFaults
  BY <1>1 DEF Rows
<1> QED BY <1>1, <1>2 DEF RowIds, Jobs, jobOf

LEMMA JobTyped ==
    ASSUME JobsTyped, NEW j \in DOMAIN jobs
    PROVE  /\ j \in Jobs /\ j.row \in RowIds /\ j.row[1] \in Deliveries
           /\ j.attempt \in Attempts \ {0} /\ j.tries \in 0..MaxFaults
           /\ jobs[j] \in JobStates
<1>1. j \in Jobs /\ jobs[j] \in JobStates
  BY DEF JobsTyped
<1> QED BY <1>1 DEF Jobs, RowIds

(* Rows that stay, beside new ones under ids of their own.                     *)
RowsKept ==
    /\ \A r \in DOMAIN outbox : r \in DOMAIN outbox' /\ outbox'[r] = outbox[r]
    /\ \A j \in DOMAIN jobs : j.row \in DOMAIN outbox' => j.row \in DOMAIN outbox

(* No job is added, and none but the one w holds changes its state.            *)
StepOf(w) ==
    /\ \A v \in Workers : v # w => worker'[v] = worker[v]
    /\ DOMAIN jobs' = DOMAIN jobs
    /\ \A j \in DOMAIN jobs : j # worker[w].job => jobs'[j] = jobs[j]

(* The rows and the other workers stay, and w goes on or leaves.               *)
LEMMA StepTables ==
    ASSUME TablesInv, NEW w \in Workers, ~at(w, "idle"), StepOf(w), RowsKept,
           \/ worker'[w] = Idle /\ jobs'[worker[w].job] \in {"completed", "failed"}
           \/ worker'[w].job = worker[w].job /\ jobs' = jobs
    PROVE  JobsNumbered' /\ Held'
<1> USE DEF TablesInv, Typed
<1>1. worker[w].job \in DOMAIN jobs /\ jobs[worker[w].job] = "active"
  BY DEF Held
<1>2. JobsNumbered'
  <2> SUFFICES ASSUME NEW j \in DOMAIN jobs, j.row \in DOMAIN outbox'
               PROVE  NumberedJob(j)'
    BY DEF JobsNumbered, NumberedJob, StepOf
  <2>1. j.row \in DOMAIN outbox /\ outbox'[j.row] = outbox[j.row]
    BY DEF RowsKept
  <2>2. NumberedJob(j)
    BY DEF JobsNumbered
  <2>3. jobs'[j] \in {"waiting", "active"} => jobs[j] \in {"waiting", "active"}
    BY <1>1 DEF StepOf
  <2> QED BY <2>1, <2>2, <2>3 DEF NumberedJob, jobOf
<1>3. Held'
  BY <1>1 DEF Held, at, Idle, StepOf
<1> QED BY <1>2, <1>3

LEMMA LeavesStep ==
    ASSUME TablesInv, NEW w \in Workers, ~at(w, "idle"), Leaves(w)
    PROVE  /\ StepOf(w)
           /\ \/ worker'[w] = Idle /\ jobs'[worker[w].job] \in {"completed", "failed"}
              \/ worker'[w].job = worker[w].job /\ jobs' = jobs
<1>1. worker[w].job \in DOMAIN jobs
  BY DEF TablesInv, Held
<1> QED BY <1>1 DEF Leaves, StepOf

LEMMA CreatesKept ==
    ASSUME NEW d, NEW n, NEW r, Creates(d, n, r)
    PROVE  RowsKept
BY DEF Creates, RowsKept

LEMMA InitTables == Init => TablesInv
<1> SUFFICES ASSUME Init PROVE TablesInv
  OBVIOUS
<1>1. DOMAIN jobs = {} /\ \A w \in Workers : at(w, "idle")
  BY DEF Init, at, Idle
<1> QED BY <1>1, InitTyped, Zenon DEF TablesInv, JobsNumbered, Held

(* The row that is published gets a job of its own.                            *)
LEMMA Published ==
    ASSUME TablesInv, Publish
    PROVE  \E r \in DOMAIN outbox :
              /\ ~outbox[r].published /\ jobOf(r) \notin DOMAIN jobs
              /\ DOMAIN jobs' = DOMAIN jobs \cup {jobOf(r)} /\ jobs'[jobOf(r)] = "waiting"
              /\ \A j \in DOMAIN jobs : jobs'[j] = jobs[j]
              /\ DOMAIN outbox' = DOMAIN outbox
              /\ outbox'[r].published /\ outbox'[r].tries = outbox[r].tries
              /\ outbox'[r].attempt = outbox[r].attempt
              /\ \A q \in DOMAIN outbox : q # r => outbox'[q] = outbox[q]
<1> USE DEF TablesInv, Typed
<1>1. PICK r \in DOMAIN outbox :
          /\ ~outbox[r].published
          /\ jobs' = IF jobOf(r) \in DOMAIN jobs THEN jobs ELSE with(jobs, jobOf(r), "waiting")
          /\ outbox' = [outbox EXCEPT ![r].published = TRUE, ![r].age = 0]
  BY DEF Publish, jobOf
<1>2. \A j \in DOMAIN jobs : j.row = r => j.tries < outbox[r].tries
  BY <1>1 DEF JobsNumbered, NumberedJob
<1>3. jobOf(r).row = r /\ jobOf(r).tries = outbox[r].tries /\ outbox[r].tries \in Nat
  BY RowsTyped
<1>4. jobOf(r) \notin DOMAIN jobs
  BY <1>2, <1>3
<1>5. /\ DOMAIN jobs' = DOMAIN jobs \cup {jobOf(r)} /\ jobs'[jobOf(r)] = "waiting"
      /\ \A j \in DOMAIN jobs : jobs'[j] = jobs[j]
  <2> HIDE DEF jobOf
  <2> QED BY <1>1, <1>4 DEF with
<1>6. /\ DOMAIN outbox' = DOMAIN outbox
      /\ outbox'[r].published /\ outbox'[r].tries = outbox[r].tries
      /\ outbox'[r].attempt = outbox[r].attempt
      /\ \A q \in DOMAIN outbox : q # r => outbox'[q] = outbox[q]
  <2>1. outbox[r] \in Rows
    BY DEF OutboxTyped
  <2> QED BY <1>1, <2>1 DEF Rows
<1> QED BY <1>1, <1>4, <1>5, <1>6

LEMMA PublishTables == TablesInv /\ Publish => JobsNumbered' /\ Held'
<1> SUFFICES ASSUME TablesInv, Publish PROVE JobsNumbered' /\ Held'
  OBVIOUS
<1> USE DEF TablesInv, Typed
<1>1. PICK r \in DOMAIN outbox :
              /\ ~outbox[r].published /\ jobOf(r) \notin DOMAIN jobs
              /\ DOMAIN jobs' = DOMAIN jobs \cup {jobOf(r)} /\ jobs'[jobOf(r)] = "waiting"
              /\ \A j \in DOMAIN jobs : jobs'[j] = jobs[j]
              /\ DOMAIN outbox' = DOMAIN outbox
              /\ outbox'[r].published /\ outbox'[r].tries = outbox[r].tries
              /\ outbox'[r].attempt = outbox[r].attempt
              /\ \A q \in DOMAIN outbox : q # r => outbox'[q] = outbox[q]
  BY Published
<1>2. jobOf(r).row = r /\ jobOf(r).tries = outbox[r].tries /\ outbox[r].tries \in Nat
  BY RowsTyped
<1>3. JobsNumbered'
  <2> SUFFICES ASSUME NEW j \in DOMAIN jobs', j.row \in DOMAIN outbox' PROVE NumberedJob(j)'
    BY DEF JobsNumbered, NumberedJob
  <2>1. CASE j = jobOf(r)
    <3>1. jobOf(r)' = jobOf(r)
      BY <1>1 DEF jobOf
    <3> QED BY <1>1, <1>2, <2>1, <3>1 DEF NumberedJob
  <2>2. CASE j \in DOMAIN jobs /\ j.row = r
    <3>1. j.tries < outbox[r].tries /\ NumberedJob(j)
      BY <1>1, <2>2 DEF JobsNumbered, NumberedJob
    <3>2. jobs[j] \notin {"waiting", "active"}
      BY <1>2, <2>2, <3>1 DEF NumberedJob
    <3> QED BY <1>1, <2>2, <3>1, <3>2 DEF NumberedJob
  <2>3. CASE j \in DOMAIN jobs /\ j.row # r
    <3>1. NumberedJob(j)
      BY <2>3 DEF JobsNumbered
    <3> QED BY <1>1, <2>3, <3>1 DEF NumberedJob, jobOf
  <2> QED BY <1>1, <2>1, <2>2, <2>3
<1>4. UNCHANGED worker
  BY DEF Publish
<1>5. Held'
  BY <1>1, <1>4 DEF Held, at
<1> QED BY <1>3, <1>5

LEMMA FindTables == \A w \in Workers : TablesInv /\ Find(w) => JobsNumbered' /\ Held'
<1> SUFFICES ASSUME NEW w \in Workers, TablesInv, Find(w) PROVE JobsNumbered' /\ Held'
  OBVIOUS
<1> USE DEF TablesInv, Typed
<1>1. PICK j \in DOMAIN jobs :
          /\ jobs[j] = "waiting"
          /\ \/ jobs' = [jobs EXCEPT ![j] = "completed"] /\ worker' = worker
             \/ /\ jobs' = [jobs EXCEPT ![j] = "active"]
                /\ worker' = [worker EXCEPT ![w] = [pc |-> "claim", job |-> j]]
  BY DEF Find
<1>2. /\ DOMAIN jobs' = DOMAIN jobs /\ jobs'[j] \in {"active", "completed"}
      /\ \A i \in DOMAIN jobs : i # j => jobs'[i] = jobs[i]
  BY <1>1
<1>3. UNCHANGED outbox
  BY DEF Find
<1>4. JobsNumbered'
  BY <1>1, <1>2, <1>3 DEF JobsNumbered, NumberedJob, jobOf
<1>5. \A v \in Workers : ~at(v, "idle") => worker[v].job # j
  BY <1>1 DEF Held
<1>6. \/ worker' = worker
      \/ /\ worker'[w] = [pc |-> "claim", job |-> j] /\ jobs'[j] = "active"
         /\ \A v \in Workers : v # w => worker'[v] = worker[v]
  BY <1>1 DEF WorkerTyped
<1>7. Held'
  BY <1>2, <1>5, <1>6 DEF Held, at
<1> QED BY <1>4, <1>7

(* What any other step of a worker does to the rows, the jobs and the workers. *)
LEMMA WorkerStepKept ==
    ASSUME TablesInv, Grown, NEW w \in Workers, WorkerStep(w), ~Find(w)
    PROVE  /\ ~at(w, "idle") /\ own(w) \in Deliveries /\ RowsKept /\ StepOf(w)
           /\ \/ worker'[w] = Idle /\ jobs'[worker[w].job] \in {"completed", "failed"}
              \/ worker'[w].job = worker[w].job /\ jobs' = jobs
<1> USE DEF TablesInv, Typed
<1>1. ~at(w, "idle")
  BY DEF WorkerStep, MarkRateLimited, Claim, MarkFailed, BeginMark, ends, CommitMark, Throw, at
<1>2. own(w) \in Deliveries /\ expected(w) \in Attempts \ {0}
  BY <1>1, WorkerKinds
<1>3. ASSUME UNCHANGED outbox PROVE RowsKept
  BY <1>3 DEF RowsKept
<1>4. ASSUME return(w) \/ throw(w) \/ finish(w, "failed")
      PROVE  /\ StepOf(w)
             /\ \/ worker'[w] = Idle /\ jobs'[worker[w].job] \in {"completed", "failed"}
                \/ worker'[w].job = worker[w].job /\ jobs' = jobs
  BY <1>1, <1>4, LeavesTyped, LeavesStep
<1>5. CASE MarkRateLimited(w) \/ MarkFailed(w)
  <2>1. return(w) \/ throw(w) \/ finish(w, "failed")
    BY <1>5 DEF MarkRateLimited, MarkFailed
  <2>2. CASE exists(own(w))
    <3>1. \/ create(own(w), expected(w))
          \/ create(own(w), expected(w) + 1) /\ expected(w) < MaxAttempts
      BY <1>5, <2>2 DEF MarkRateLimited, MarkFailed
    <3>2. PICK n \in Attempts' \ {0} : create(own(w), n)
      <4>1. expected(w) \in Attempts' \ {0}
        BY <1>2, Wider
      <4>2. expected(w) < MaxAttempts => expected(w) + 1 \in Attempts' \ {0}
        BY <1>2 DEF Attempts, Grown, FaultsTyped
      <4> QED BY <3>1, <4>1, <4>2
    <3> QED BY <1>1, <1>2, <1>4, <2>1, <3>2, Created, CreatesKept
  <2>3. CASE ~exists(own(w))
    BY <1>1, <1>2, <1>3, <1>4, <1>5, <2>1, <2>3 DEF MarkRateLimited, MarkFailed
  <2> QED BY <2>2, <2>3
<1>6. CASE Claim(w)
  <2>1. UNCHANGED outbox
    BY <1>6 DEF Claim
  <2>2. \/ return(w) \/ throw(w)
        \/ goto(w, "send") /\ UNCHANGED jobs
    BY <1>6 DEF Claim
  <2>3. CASE goto(w, "send") /\ UNCHANGED jobs
    BY <1>1, <1>2, <1>3, <2>1, <2>3, GotoTyped DEF StepOf
  <2> QED BY <1>1, <1>2, <1>3, <1>4, <2>1, <2>2, <2>3
<1>7. CASE BeginMark(w)
  <2>1. UNCHANGED outbox
    BY <1>7 DEF BeginMark
  <2>2. CASE ~exists(own(w))
    BY <1>1, <1>2, <1>3, <1>4, <1>7, <2>1, <2>2 DEF BeginMark
  <2>3. CASE exists(own(w))
    <3> DEFINE mark(outcome) == calculateEventStatus(
                   {delivery[d].status : d \in Deliveries \ {own(w)}} \cup {outcome})
    <3>1. PICK outcome \in Terminal :
             worker' = [worker EXCEPT ![w] = [pc |-> "commit", job |-> @.job, outcome |-> outcome,
                                              status |-> mark(outcome)]]
      BY <1>7, <2>3 DEF BeginMark
    <3>2. UNCHANGED jobs
      BY <1>7, <2>3 DEF BeginMark
    <3> HIDE DEF mark
    <3>3. worker'[w].job = worker[w].job /\ \A v \in Workers : v # w => worker'[v] = worker[v]
      BY <3>1 DEF WorkerTyped
    <3> QED BY <1>1, <1>2, <1>3, <2>1, <3>2, <3>3 DEF StepOf
  <2> QED BY <2>2, <2>3
<1>8. CASE CommitMark(w) \/ Throw(w)
  BY <1>1, <1>2, <1>3, <1>4, <1>8 DEF CommitMark, Throw
<1> QED BY <1>5, <1>6, <1>7, <1>8 DEF WorkerStep

LEMMA ReplayTables ==
    \A d \in Deliveries :
        TablesInv /\ Grown /\ (ReplayCheck(d) \/ ReplayReset(d)) => JobsNumbered' /\ Held'
<1> SUFFICES ASSUME NEW d \in Deliveries, TablesInv, Grown, ReplayCheck(d) \/ ReplayReset(d)
             PROVE  JobsNumbered' /\ Held'
  OBVIOUS
<1> USE DEF TablesInv, Typed
<1>1. UNCHANGED <<jobs, worker>>
  BY DEF ReplayCheck, ReplayReset
<1>2. RowsKept
  <2>1. CASE UNCHANGED outbox
    BY <2>1 DEF RowsKept
  <2>2. CASE create(d, 1)
    <3>1. faults' \in Nat
      BY DEF Grown, FaultsTyped
    <3>2. 1 \in 1..(MaxAttempts + faults')
      BY <3>1, AttemptsFacts, Zenon
    <3>3. 1 \in Attempts' \ {0}
      BY <3>2 DEF Attempts
    <3> QED BY <2>2, <3>3, Created, CreatesKept
  <2> QED BY <2>1, <2>2 DEF ReplayCheck, ReplayReset, resetForReplay
<1>3. JobsNumbered'
  BY <1>1, <1>2 DEF JobsNumbered, NumberedJob, jobOf, RowsKept
<1>4. Held'
  BY <1>1 DEF Held, at
<1> QED BY <1>3, <1>4

LEMMA MaintenanceTables == TablesInv /\ Grown /\ Maintenance => JobsNumbered' /\ Held'
<1> SUFFICES ASSUME TablesInv, Grown, Maintenance PROVE JobsNumbered' /\ Held'
  OBVIOUS
<1> USE DEF TablesInv, Typed
<1>1. UNCHANGED <<jobs, worker>>
  BY DEF Maintenance, cleanupPublishedOutboxRows, cleanupOldEvents, recoverStaleDelivery,
         recoverStrandedPublishedOutbox, GiveUp
<1>2. Held'
  BY <1>1 DEF Held, at
<1>3. CASE GiveUp \/ cleanupPublishedOutboxRows \/ cleanupOldEvents
  <2>1. \A r \in DOMAIN outbox' : r \in DOMAIN outbox /\ outbox'[r] = outbox[r]
    BY <1>3 DEF GiveUp, cleanupPublishedOutboxRows, cleanupOldEvents, without
  <2>2. JobsNumbered'
    BY <1>1, <2>1 DEF JobsNumbered, NumberedJob, jobOf
  <2> QED BY <1>2, <2>2
<1>4. CASE \E d \in Deliveries : recoverStaleDelivery(d)
  <2>1. PICK d \in Deliveries : recoverStaleDelivery(d)
    BY <1>4
  <2>2. PICK r \in freeIds(d) : outbox' = with(outbox, r, newRow(delivery[d].attempts + 1))
    BY <2>1 DEF recoverStaleDelivery, create
  <2> DEFINE new == newRow(delivery[d].attempts + 1)
  <2>3. /\ r \notin DOMAIN outbox /\ \A j \in DOMAIN jobs : j.row # r
        /\ outbox' = with(outbox, r, new)
    BY <2>2 DEF freeIds
  <2> HIDE DEF new
  <2>4. /\ DOMAIN outbox' = DOMAIN outbox \cup {r}
        /\ \A q \in DOMAIN outbox : outbox'[q] = outbox[q]
    BY <2>3 DEF with
  <2>5. JobsNumbered'
    BY <1>1, <2>3, <2>4 DEF JobsNumbered, NumberedJob, jobOf
  <2> QED BY <1>2, <2>5
<1>5. CASE recoverStrandedPublishedOutbox
  <2> SUFFICES ASSUME NEW j \in DOMAIN jobs, j.row \in DOMAIN outbox' PROVE NumberedJob(j)'
    BY <1>1, <1>2, <1>5 DEF JobsNumbered, NumberedJob, recoverStrandedPublishedOutbox
  <2> DEFINE r == j.row
  <2>1. r \in DOMAIN outbox /\ NumberedJob(j)
    BY <1>5 DEF recoverStrandedPublishedOutbox, JobsNumbered
  <2>2. outbox[r] \in Rows /\ outbox[r].tries \in Nat /\ j.tries \in Nat
    BY <2>1, JobTyped, RowsTyped DEF OutboxTyped
  <2>3. CASE stranded(r)
    <3>1. outbox'[r] = [outbox[r] EXCEPT !.published = FALSE, !.tries = @ + 1]
      BY <1>5, <2>1, <2>3 DEF recoverStrandedPublishedOutbox
    <3>2. outbox'[r].tries = outbox[r].tries + 1
      BY <2>2, <3>1 DEF Rows
    <3>3. jobs[j] \notin {"waiting", "active"}
      BY <2>1, <2>3 DEF NumberedJob, stranded, jobOf
    <3> QED BY <1>1, <2>1, <2>2, <3>2, <3>3 DEF NumberedJob
  <2>4. CASE ~stranded(r)
    <3>1. outbox'[r] = outbox[r]
      BY <1>5, <2>1, <2>4 DEF recoverStrandedPublishedOutbox
    <3> QED BY <1>1, <2>1, <3>1 DEF NumberedJob, jobOf
  <2> QED BY <2>3, <2>4
<1> QED BY <1>3, <1>4, <1>5 DEF Maintenance

(* A job that waits is lost, or fails.                                         *)
LEMMA LossTables == TablesInv /\ LoseJob => JobsNumbered' /\ Held'
<1> SUFFICES ASSUME TablesInv, LoseJob PROVE JobsNumbered' /\ Held'
  OBVIOUS
<1> USE DEF TablesInv, Typed
<1>1. PICK j \in DOMAIN jobs : /\ jobs[j] = "waiting"
                               /\ jobs' = without(jobs, {j}) \/ jobs' = [jobs EXCEPT ![j] = "failed"]
  BY DEF LoseJob
<1>2. /\ DOMAIN jobs' \subseteq DOMAIN jobs
      /\ \A i \in DOMAIN jobs : i # j => i \in DOMAIN jobs' /\ jobs'[i] = jobs[i]
      /\ j \in DOMAIN jobs' => jobs'[j] = "failed"
  BY <1>1 DEF without
<1>3. UNCHANGED <<outbox, worker>>
  BY DEF LoseJob
<1>4. JobsNumbered'
  BY <1>2, <1>3 DEF JobsNumbered, NumberedJob, jobOf
<1>5. Held'
  BY <1>1, <1>2, <1>3 DEF Held, at
<1> QED BY <1>4, <1>5

LEMMA DayRows ==
    ASSUME OutboxTyped, Day, NEW r \in DOMAIN outbox
    PROVE  /\ r \in DOMAIN outbox' /\ jobOf(r)' = jobOf(r)
           /\ outbox'[r].attempt = outbox[r].attempt /\ outbox'[r].tries = outbox[r].tries
           /\ outbox'[r].published = outbox[r].published
           /\ outbox'[r].age <= outbox[r].age + 1
           /\ outbox[r].age \in Int /\ outbox'[r].age \in Int
<1>1. outbox[r] \in Rows /\ outbox[r].age \in 0..Week /\ outbox[r].age \in Int
  BY RowsTyped DEF OutboxTyped
<1>2. older(outbox[r].age, Week) <= outbox[r].age + 1 /\ older(outbox[r].age, Week) \in 0..Week
  BY <1>1, OlderFacts
<1>3. CASE outbox[r].published
  <2>1. outbox'[r] = [outbox[r] EXCEPT !.age = older(@, Week)]
    BY <1>3 DEF Day
  <2> QED BY <1>1, <1>2, <2>1 DEF Day, Rows, jobOf
<1>4. CASE ~outbox[r].published
  <2>1. outbox'[r] = outbox[r] /\ r \in DOMAIN outbox'
    BY <1>4 DEF Day
  <2>2. jobOf(r)' = jobOf(r)
    BY <2>1 DEF jobOf
  <2> QED BY <1>1, <2>1, <2>2
<1> QED BY <1>3, <1>4

LEMMA DayTables == TablesInv /\ Day => JobsNumbered' /\ Held'
<1> SUFFICES ASSUME TablesInv, Day PROVE JobsNumbered' /\ Held'
  OBVIOUS
<1>1. UNCHANGED <<jobs, worker>> /\ DOMAIN outbox' = DOMAIN outbox
  BY DEF Day
<1>2. JobsNumbered'
  BY <1>1, DayRows DEF TablesInv, Typed, JobsNumbered, NumberedJob
<1>3. Held'
  BY <1>1 DEF TablesInv, Held, at
<1> QED BY <1>2, <1>3

LEMMA TablesStep == TablesInv /\ [Next]_vars => TablesInv'
<1> SUFFICES ASSUME TablesInv, [Next]_vars PROVE TablesInv'
  OBVIOUS
<1>1. Typed' /\ Grown
  BY NextTyped, FaultsGrow DEF TablesInv, Typed
<1>2. JobsNumbered' /\ Held'
  <2>1. CASE Publish \/ Maintenance \/ LoseJob \/ Day
    BY <1>1, <2>1, PublishTables, MaintenanceTables, LossTables, DayTables
  <2>2. ASSUME NEW w \in Workers, WorkerStep(w) PROVE JobsNumbered' /\ Held'
    <3>1. CASE Find(w)
      BY <3>1, FindTables
    <3>2. CASE ~Find(w)
      BY <1>1, <2>2, <3>2, WorkerStepKept, StepTables
    <3> QED BY <3>1, <3>2
  <2>3. CASE \E d \in Deliveries : ReplayCheck(d) \/ ReplayReset(d)
    BY <1>1, <2>3, ReplayTables
  <2>4. CASE UNCHANGED vars
    BY <2>4 DEF vars, TablesInv, JobsNumbered, NumberedJob, jobOf, Held, at
  <2> QED BY <2>1, <2>2, <2>3, <2>4 DEF Next
<1> QED BY <1>1, <1>2 DEF TablesInv

-----------------------------------------------------------------------------
(* What a pending delivery has to go on with, for the attempt a claim would    *)
(* accept: a row that will become a job; the row of a job that has failed or   *)
(* gone, young enough for the next pass to find it; or a job that has still to *)
(* claim or cancel it.                                                         *)
LostAge == IF upkeep = "done" THEN Week - 2 ELSE Week - 1

Lost(r) == jobOf(r) \notin DOMAIN jobs \/ jobs[jobOf(r)] = "failed"

RowFits(d, r) ==
    /\ r \in DOMAIN outbox /\ r[1] = d /\ outbox[r].attempt = delivery[d].attempts + 1
    /\ outbox[r].published => Lost(r) /\ outbox[r].age <= LostAge

JobFits(d, j) ==
    j \in DOMAIN jobs /\ j.row[1] = d /\ j.attempt = delivery[d].attempts + 1 /\ isOpen(j)

Chance(d) == (\E r \in RowIds : RowFits(d, r)) \/ (\E j \in Jobs : JobFits(d, j))

Awaited(d) == d \notin strayed /\ delivery[d].status = "PENDING" /\ upkeep # "lapsed"

RecoverInv == TablesInv /\ \A d \in Deliveries : Awaited(d) => Chance(d)

(* The jobs that are open, and their holders.                                  *)
LEMMA OpenJobs ==
    ASSUME Held, NEW j \in DOMAIN jobs, isOpen(j)
    PROVE  /\ jobs[j] \in {"waiting", "active"}
           /\ jobs[j] = "active" => \E w \in Workers : unclaimed(w) /\ worker[w].job = j
BY DEF Held, isOpen, unclaimed, at

(* A chance for a delivery that keeps its attempts, as a row or as a job.      *)
LEMMA RowStays ==
    ASSUME NEW d \in Deliveries, NEW r \in RowIds, RowFits(d, r), Grown,
           delivery'[d].attempts = delivery[d].attempts,
           r \in DOMAIN outbox', outbox'[r] = outbox[r], UNCHANGED upkeep,
           outbox[r].published => Lost(r)'
    PROVE  Chance(d)'
<1>1. RowFits(d, r)'
  BY DEF RowFits, LostAge
<1>2. RowIds' = RowIds
  BY DEF RowIds
<1> QED BY <1>1, <1>2 DEF Chance

LEMMA JobStays ==
    ASSUME JobsTyped, Grown, NEW d \in Deliveries, NEW j, JobFits(d, j),
           delivery'[d].attempts = delivery[d].attempts,
           j \in DOMAIN jobs', isOpen(j)'
    PROVE  Chance(d)'
<1>1. JobFits(d, j)'
  BY DEF JobFits
<1>2. j \in Jobs'
  BY Wider DEF JobFits, JobsTyped
<1> QED BY <1>1, <1>2 DEF Chance

(* The row of a job that is open: if the job is lost now, the next pass finds  *)
(* it.                                                                         *)
LEMMA Missed ==
    ASSUME TablesInv, Grown, NEW d \in Deliveries, NEW j, JobFits(d, j),
           UNCHANGED <<delivery, outbox>>, missed(j), upkeep' # "lapsed",
           j \in DOMAIN jobs' => jobs'[j] = "failed"
    PROVE  Chance(d)'
<1> USE DEF TablesInv, Typed
<1>1. j.row \in DOMAIN outbox /\ outbox[j.row].age < Week - 1
  BY DEF missed
<1>2. j = jobOf(j.row)
  BY <1>1, OpenJobs DEF JobFits, JobsNumbered, NumberedJob
<1>3. /\ j.row \in RowIds /\ outbox[j.row].attempt = j.attempt
      /\ outbox[j.row].age \in Int
  BY <1>1, <1>2, RowsTyped
<1>4. Lost(j.row)'
  <2>1. jobOf(j.row)' = j
    BY <1>2 DEF jobOf
  <2> QED BY <2>1 DEF Lost
<1>5. outbox[j.row].age <= Week - 2
  BY <1>1, <1>3
<1>6. RowFits(d, j.row)'
  <2> DEFINE r == j.row
  <2>1. r \in DOMAIN outbox' /\ outbox'[r] = outbox[r] /\ delivery'[d] = delivery[d]
    BY <1>1
  <2>2. outbox[r].age <= LostAge'
    BY <1>3, <1>5 DEF LostAge
  <2>3. r[1] = d /\ outbox[r].attempt = delivery[d].attempts + 1
    BY <1>3 DEF JobFits
  <2> QED BY <1>4, <2>1, <2>2, <2>3 DEF RowFits
<1> QED BY <1>3, <1>6 DEF Chance

(* The step of a worker takes no chance from a delivery for which its job is   *)
(* none.                                                                       *)
LEMMA StepChance ==
    ASSUME TablesInv, Grown, NEW w \in Workers, ~at(w, "idle"), StepOf(w), RowsKept,
           NEW d \in Deliveries, Chance(d), ~JobFits(d, worker[w].job),
           delivery'[d].attempts = delivery[d].attempts, UNCHANGED upkeep,
           \/ worker'[w] = Idle /\ jobs'[worker[w].job] \in {"completed", "failed"}
           \/ worker'[w].job = worker[w].job /\ jobs' = jobs
    PROVE  Chance(d)'
<1> USE DEF TablesInv, Typed
<1>1. worker[w].job \in DOMAIN jobs /\ jobs[worker[w].job] = "active"
  BY DEF Held
<1>2. ASSUME NEW r \in RowIds, RowFits(d, r) PROVE Chance(d)'
  <2>1. r \in DOMAIN outbox' /\ outbox'[r] = outbox[r]
    BY <1>2 DEF RowFits, RowsKept
  <2>2. jobOf(r)' = jobOf(r)
    BY <2>1 DEF jobOf
  <2>3. outbox[r].published => Lost(r)'
    <3> SUFFICES ASSUME Lost(r) PROVE Lost(r)'
      BY <1>2 DEF RowFits
    <3>1. jobOf(r) # worker[w].job
      BY <1>1 DEF Lost
    <3> QED BY <2>2, <3>1 DEF Lost, StepOf
  <2> QED BY <1>2, <2>1, <2>3, RowStays
<1>3. ASSUME NEW j \in Jobs, JobFits(d, j) PROVE Chance(d)'
  <2>1. j \in DOMAIN jobs /\ isOpen(j) /\ j # worker[w].job
    BY <1>3 DEF JobFits
  <2>2. j \in DOMAIN jobs' /\ jobs'[j] = jobs[j]
    BY <2>1 DEF StepOf
  <2>3. isOpen(j)'
    <3>1. CASE jobs[j] = "waiting"
      BY <2>2, <3>1 DEF isOpen
    <3>2. ASSUME NEW v \in Workers, unclaimed(v), worker[v].job = j PROVE isOpen(j)'
      <4>1. worker'[v] = worker[v]
        BY <2>1, <3>2 DEF StepOf
      <4> QED BY <3>2, <4>1 DEF isOpen, unclaimed, at
    <3> QED BY <2>1, <3>1, <3>2 DEF isOpen
  <2> QED BY <1>3, <2>2, <2>3, JobStays
<1> QED BY <1>2, <1>3 DEF Chance

(* Nothing is awaited any more that was not, unless it is pending afresh.      *)
LEMMA FindChance ==
    \A w \in Workers, d \in Deliveries : RecoverInv /\ Grown /\ Find(w) /\ Awaited(d)' => Chance(d)'
<1> SUFFICES ASSUME NEW w \in Workers, NEW d \in Deliveries, RecoverInv, Grown, Find(w), Awaited(d)'
             PROVE  Chance(d)'
  OBVIOUS
<1> USE DEF RecoverInv, TablesInv, Typed
<1>1. at(w, "idle") /\ UNCHANGED <<delivery, outbox, upkeep, strayed>>
  BY DEF Find
<1>2. Chance(d) /\ delivery[d].status = "PENDING"
  BY <1>1 DEF Awaited
<1>3. PICK i \in DOMAIN jobs :
          LET over == ~exists(i.row[1]) \/ delivery[i.row[1]].status \in Terminal
          IN  /\ jobs[i] = "waiting"
              /\ jobs' = [jobs EXCEPT ![i] = IF over THEN "completed" ELSE "active"]
              /\ worker' = IF over THEN worker
                           ELSE [worker EXCEPT ![w] = [pc |-> "claim", job |-> i]]
  BY DEF Find
<1>4. /\ DOMAIN jobs' = DOMAIN jobs /\ \A j \in DOMAIN jobs : j # i => jobs'[j] = jobs[j]
      /\ \A v \in Workers : v # w => worker'[v] = worker[v]
      /\ jobs'[i] # "failed"
  BY <1>3
<1>5. ASSUME NEW r \in RowIds, RowFits(d, r) PROVE Chance(d)'
  <2>1. r \in DOMAIN outbox' /\ outbox'[r] = outbox[r] /\ jobOf(r)' = jobOf(r)
    BY <1>1, <1>5 DEF RowFits, jobOf
  <2>2. outbox[r].published => Lost(r)'
    <3> SUFFICES ASSUME Lost(r) PROVE Lost(r)'
      BY <1>5 DEF RowFits
    <3>1. jobOf(r) # i
      BY <1>3 DEF Lost
    <3> QED BY <1>4, <2>1, <3>1 DEF Lost
  <2> QED BY <1>1, <1>5, <2>1, <2>2, RowStays
<1>6. ASSUME NEW j \in Jobs, JobFits(d, j) PROVE Chance(d)'
  <2>1. j \in DOMAIN jobs /\ j \in DOMAIN jobs'
    BY <1>4, <1>6 DEF JobFits
  <2>2. isOpen(j)'
    <3>1. CASE j = i
      <4>1. ~(~exists(i.row[1]) \/ delivery[i.row[1]].status \in Terminal)
        BY <1>2, <1>6, <3>1 DEF JobFits, exists, Terminal
      <4>2. worker' = [worker EXCEPT ![w] = [pc |-> "claim", job |-> i]]
        BY <1>3, <4>1
      <4>3. worker'[w] = [pc |-> "claim", job |-> i]
        BY <4>2 DEF WorkerTyped
      <4> QED BY <3>1, <4>3 DEF isOpen, unclaimed, at
    <3>2. CASE j # i
      <4>1. CASE jobs[j] = "waiting"
        BY <1>4, <2>1, <3>2, <4>1 DEF isOpen
      <4>2. ASSUME NEW v \in Workers, unclaimed(v), worker[v].job = j PROVE isOpen(j)'
        <5>1. worker'[v] = worker[v]
          BY <1>1, <1>4, <4>2 DEF unclaimed, at
        <5> QED BY <4>2, <5>1 DEF isOpen, unclaimed, at
      <4> QED BY <1>6, <4>1, <4>2 DEF JobFits, isOpen
    <3> QED BY <3>1, <3>2
  <2> QED BY <1>1, <1>6, <2>1, <2>2, JobStays
<1> QED BY <1>2, <1>5, <1>6 DEF Chance

(* The new row of a delivery is its chance, if it has the next attempt.        *)
LEMMA NewChance ==
    ASSUME NEW d \in Deliveries, NEW n, NEW r \in RowIds, Creates(d, n, r),
           n = delivery'[d].attempts + 1
    PROVE  Chance(d)'
<1>1. outbox'[r].attempt = n /\ ~outbox'[r].published
  BY DEF Creates, newRow
<1>2. RowFits(d, r)'
  BY <1>1 DEF Creates, RowFits
<1>3. RowIds' = RowIds
  BY DEF RowIds
<1> QED BY <1>2, <1>3 DEF Chance

LEMMA WorkerChance ==
    \A w \in Workers, d \in Deliveries :
        RecoverInv /\ Grown /\ WorkerStep(w) /\ ~Find(w) /\ Awaited(d)' => Chance(d)'
<1> SUFFICES ASSUME NEW w \in Workers, NEW d \in Deliveries, RecoverInv, Grown,
                    WorkerStep(w), ~Find(w), Awaited(d)'
             PROVE  Chance(d)'
  OBVIOUS
<1> USE DEF RecoverInv, TablesInv, Typed
<1>1. /\ ~at(w, "idle") /\ own(w) \in Deliveries /\ RowsKept /\ StepOf(w)
      /\ \/ worker'[w] = Idle /\ jobs'[worker[w].job] \in {"completed", "failed"}
         \/ worker'[w].job = worker[w].job /\ jobs' = jobs
  BY WorkerStepKept
<1>2. expected(w) \in Attempts \ {0}
  BY <1>1, WorkerKinds
<1>3. JobFits(d, worker[w].job) => own(w) = d /\ expected(w) = delivery[d].attempts + 1 /\ unclaimed(w)
  <2> SUFFICES ASSUME JobFits(d, worker[w].job)
               PROVE  own(w) = d /\ expected(w) = delivery[d].attempts + 1 /\ unclaimed(w)
    OBVIOUS
  <2>1. jobs[worker[w].job] = "active" /\ worker[w].job \in DOMAIN jobs
    BY <1>1 DEF Held
  <2>2. PICK v \in Workers : unclaimed(v) /\ worker[v].job = worker[w].job
    BY <2>1 DEF JobFits, isOpen
  <2>3. v = w
    BY <1>1, <2>2 DEF Held, unclaimed, at
  <2> QED BY <2>2, <2>3 DEF JobFits, own, row, expected
<1>4. ASSUME delivery'[d] = delivery[d], UNCHANGED <<upkeep, strayed>>, ~JobFits(d, worker[w].job)
      PROVE  Chance(d)'
  <2>1. Awaited(d)
    BY <1>4 DEF Awaited
  <2> QED BY <1>1, <1>4, <2>1, StepChance
<1>5. ASSUME own(w) # d, UNCHANGED upkeep, strayed \ {own(w)} = strayed' \ {own(w)},
             UNCHANGED delivery \/ \E s \in DeliveryStatuses : update(own(w), s)
      PROVE  Chance(d)'
  <2>1. delivery'[d] = delivery[d]
    BY <1>1, <1>5, UpdateTyped
  <2>2. Awaited(d)
    BY <1>5, <2>1 DEF Awaited
  <2> QED BY <1>1, <1>3, <1>5, <2>1, <2>2, StepChance
<1>6. CASE MarkRateLimited(w)
  <2>1. UNCHANGED upkeep
    BY <1>6 DEF MarkRateLimited
  <2>2. CASE exists(own(w))
    <3>1. /\ update(own(w), "PENDING") /\ create(own(w), expected(w))
          /\ strayed' = IF expected(w) = delivery[own(w)].attempts + 1
                        THEN strayed \ {own(w)} ELSE strayed \cup {own(w)}
      BY <1>6, <2>2 DEF MarkRateLimited
    <3>2. CASE own(w) = d
      <4>1. expected(w) = delivery[d].attempts + 1
        BY <3>1, <3>2 DEF Awaited
      <4>2. delivery'[d].attempts = delivery[d].attempts
        BY <3>1, <3>2, UpdateTyped DEF DeliveryStatuses
      <4>3. expected(w) \in Attempts' \ {0}
        BY <1>2, Wider
      <4>4. PICK r \in RowIds : Creates(d, expected(w), r)
        BY <3>1, <3>2, <4>3, Created
      <4> QED BY <4>1, <4>2, <4>4, NewChance
    <3>3. CASE own(w) # d
      BY <1>5, <2>1, <3>1, <3>3 DEF DeliveryStatuses
    <3> QED BY <3>2, <3>3
  <2>3. CASE ~exists(own(w))
    <3>1. UNCHANGED <<delivery, strayed>>
      BY <1>6, <2>3 DEF MarkRateLimited
    <3>2. own(w) # d
      BY <2>3, <3>1 DEF exists, Awaited
    <3> QED BY <1>5, <2>1, <3>1, <3>2
  <2> QED BY <2>2, <2>3
<1>7. CASE Claim(w)
  <2>1. UNCHANGED <<upkeep, strayed>>
    BY <1>7 DEF Claim
  <2>2. CASE /\ delivery[own(w)].status \in {"PENDING", "FAILED"}
             /\ delivery[own(w)].attempts = expected(w) - 1
    <3>1. delivery' = [delivery EXCEPT ![own(w)] =
                          [status |-> "PROCESSING", attempts |-> @.attempts + 1, age |-> 0]]
      BY <1>7, <2>2 DEF Claim
    <3>2. own(w) # d /\ delivery'[d] = delivery[d]
      BY <1>1, <3>1 DEF Awaited, DeliveryTyped
    <3> QED BY <1>3, <1>4, <2>1, <3>2
  <2>3. CASE ~(/\ delivery[own(w)].status \in {"PENDING", "FAILED"}
               /\ delivery[own(w)].attempts = expected(w) - 1)
    <3>1. UNCHANGED delivery
      BY <1>7, <2>3 DEF Claim
    <3>2. own(w) = d => delivery[d].attempts # expected(w) - 1
      BY <2>3, <3>1 DEF Awaited
    <3>3. ~JobFits(d, worker[w].job)
      <4>1. delivery[d].attempts \in Int /\ expected(w) \in Int
        BY <1>2 DEF DeliveryTyped, Attempts
      <4> QED BY <1>3, <3>2, <4>1
    <3> QED BY <1>4, <2>1, <3>1, <3>3
  <2> QED BY <2>2, <2>3
<1>8. CASE MarkFailed(w)
  <2>1. UNCHANGED <<upkeep, strayed>>
    BY <1>8 DEF MarkFailed
  <2>2. UNCHANGED delivery \/ update(own(w), "FAILED")
    BY <1>8 DEF MarkFailed
  <2>3. ~unclaimed(w)
    BY <1>8 DEF MarkFailed, unclaimed, at
  <2>4. CASE UNCHANGED delivery
    BY <1>3, <1>4, <2>1, <2>3, <2>4
  <2>5. CASE update(own(w), "FAILED")
    <3>1. own(w) # d
      BY <1>1, <2>5, UpdateTyped DEF Awaited, DeliveryStatuses
    <3> QED BY <1>5, <2>1, <2>5, <3>1 DEF DeliveryStatuses
  <2> QED BY <2>2, <2>4, <2>5
<1>9. CASE BeginMark(w)
  <2>1. UNCHANGED <<upkeep, strayed, delivery>>
    BY <1>9 DEF BeginMark
  <2>2. CASE ~JobFits(d, worker[w].job)
    BY <1>4, <2>1, <2>2
  <2>3. CASE JobFits(d, worker[w].job)
    <3>1. at(w, "claim") /\ own(w) = d
      BY <1>3, <1>9, <2>3 DEF BeginMark, ends, unclaimed, at
    <3>2. exists(own(w))
      BY <2>1, <3>1 DEF exists, Awaited
    <3> DEFINE mark(outcome) == calculateEventStatus(
                   {delivery[c].status : c \in Deliveries \ {own(w)}} \cup {outcome})
    <3>3. /\ UNCHANGED jobs
          /\ worker' = [worker EXCEPT ![w] = [pc |-> "commit", job |-> @.job, outcome |-> "CANCELLED",
                                              status |-> mark("CANCELLED")]]
      BY <1>9, <3>1, <3>2 DEF BeginMark, ends, at
    <3> HIDE DEF mark
    <3>4. worker'[w] = [pc |-> "commit", job |-> worker[w].job, outcome |-> "CANCELLED",
                        status |-> mark("CANCELLED")]
      BY <3>3 DEF WorkerTyped
    <3>5. isOpen(worker[w].job)'
      <4>1. unclaimed(w)' /\ worker'[w].job = worker[w].job
        BY <3>4 DEF unclaimed, at
      <4> QED BY <4>1 DEF isOpen
    <3> QED BY <2>1, <2>3, <3>3, <3>5, JobStays DEF JobFits
  <2> QED BY <2>2, <2>3
<1>10. CASE CommitMark(w)
  <2>1. UNCHANGED <<upkeep, strayed>> /\ update(own(w), worker[w].outcome)
    BY <1>10 DEF CommitMark
  <2>2. worker[w].outcome \in Terminal
    BY <1>10, WorkerKinds DEF CommitMark
  <2>3. own(w) # d
    BY <1>1, <2>1, <2>2, UpdateTyped DEF Awaited, DeliveryStatuses, Terminal
  <2> QED BY <1>5, <2>1, <2>2, <2>3 DEF DeliveryStatuses
<1>11. CASE Throw(w)
  <2>1. UNCHANGED <<delivery, outbox, strayed>> /\ throw(w)
    BY <1>11 DEF Throw
  <2>2. UNCHANGED upkeep
    BY <1>11 DEF Throw, missed, Awaited
  <2>3. CASE ~JobFits(d, worker[w].job)
    BY <1>4, <2>1, <2>2, <2>3
  <2>4. CASE JobFits(d, worker[w].job)
    <3>1. unclaimed(w) /\ missed(worker[w].job)
      BY <1>3, <1>11, <2>4 DEF Throw
    <3>2. finish(w, "failed")
      BY <2>1, <3>1 DEF throw, unclaimed, at
    <3>3. jobs'[worker[w].job] = "failed"
      BY <2>4, <3>2 DEF finish, JobFits
    <3> QED BY <2>1, <2>4, <3>1, <3>3, Missed DEF Awaited
  <2> QED BY <2>3, <2>4
<1> QED BY <1>6, <1>7, <1>8, <1>9, <1>10, <1>11 DEF WorkerStep

LEMMA PublishChance ==
    \A d \in Deliveries : RecoverInv /\ Grown /\ Publish /\ Awaited(d)' => Chance(d)'
<1> SUFFICES ASSUME NEW d \in Deliveries, RecoverInv, Grown, Publish, Awaited(d)' PROVE Chance(d)'
  OBVIOUS
<1> USE DEF RecoverInv, TablesInv, Typed
<1>1. UNCHANGED <<delivery, worker, upkeep, strayed>> /\ Chance(d)
  BY DEF Publish, Awaited
<1>2. PICK q \in DOMAIN outbox :
              /\ ~outbox[q].published /\ jobOf(q) \notin DOMAIN jobs
              /\ DOMAIN jobs' = DOMAIN jobs \cup {jobOf(q)} /\ jobs'[jobOf(q)] = "waiting"
              /\ \A j \in DOMAIN jobs : jobs'[j] = jobs[j]
              /\ DOMAIN outbox' = DOMAIN outbox
              /\ outbox'[q].published /\ outbox'[q].tries = outbox[q].tries
              /\ outbox'[q].attempt = outbox[q].attempt
              /\ \A r \in DOMAIN outbox : r # q => outbox'[r] = outbox[r]
  BY Published
<1>3. jobOf(q) \in Jobs /\ jobOf(q).row = q /\ jobOf(q).attempt = outbox[q].attempt
  BY RowsTyped
<1>4. CASE RowFits(d, q)
  <2>1. JobFits(d, jobOf(q))'
    <3>1. \A j : j = jobOf(q) => JobFits(d, j)'
      BY <1>1, <1>2, <1>3, <1>4 DEF JobFits, RowFits, isOpen
    <3>2. jobOf(q)' = jobOf(q)
      BY <1>2 DEF jobOf
    <3> QED BY <3>1, <3>2
  <2>2. jobOf(q)' \in Jobs'
    <3>1. jobOf(q)' = jobOf(q)
      BY <1>2 DEF jobOf
    <3> QED BY <1>3, <3>1, Wider
  <2> QED BY <2>1, <2>2 DEF Chance
<1>5. ASSUME NEW r \in RowIds, RowFits(d, r), r # q PROVE Chance(d)'
  <2>1. r \in DOMAIN outbox' /\ outbox'[r] = outbox[r] /\ jobOf(r)' = jobOf(r)
    BY <1>2, <1>5 DEF RowFits, jobOf
  <2>2. outbox[r].published => Lost(r)'
    <3> SUFFICES ASSUME Lost(r) PROVE Lost(r)'
      BY <1>5 DEF RowFits
    <3>1. jobOf(r) # jobOf(q)
      BY <1>3, <1>5, RowsTyped DEF RowFits
    <3> QED BY <1>2, <2>1, <3>1 DEF Lost
  <2> QED BY <1>1, <1>5, <2>1, <2>2, RowStays
<1>6. ASSUME NEW j \in Jobs, JobFits(d, j) PROVE Chance(d)'
  <2>1. j \in DOMAIN jobs' /\ isOpen(j)'
    BY <1>1, <1>2, <1>6 DEF JobFits, isOpen, unclaimed, at
  <2> QED BY <1>1, <1>6, <2>1, JobStays
<1> QED BY <1>1, <1>4, <1>5, <1>6 DEF Chance

(* The maintenance takes no row that is needed: the row of a lost job is not a *)
(* week old, and the pass that finds it publishes it again.                    *)
LEMMA MaintenanceChance ==
    \A d \in Deliveries : RecoverInv /\ Grown /\ Maintenance /\ Awaited(d)' => Chance(d)'
<1> SUFFICES ASSUME NEW d \in Deliveries, RecoverInv, Grown, Maintenance, Awaited(d)'
             PROVE  Chance(d)'
  OBVIOUS
<1> USE DEF RecoverInv, TablesInv, Typed
<1>1. UNCHANGED <<jobs, worker, strayed>>
  BY DEF Maintenance, cleanupPublishedOutboxRows, cleanupOldEvents, recoverStaleDelivery,
         recoverStrandedPublishedOutbox, GiveUp
<1>2. upkeep # "lapsed"
  BY DEF Maintenance, cleanupPublishedOutboxRows, cleanupOldEvents, recoverStaleDelivery,
         recoverStrandedPublishedOutbox, GiveUp, Awaited
<1>3. ASSUME NEW j \in Jobs, JobFits(d, j), delivery'[d].attempts = delivery[d].attempts
      PROVE  Chance(d)'
  <2>1. j \in DOMAIN jobs' /\ isOpen(j)'
    BY <1>1, <1>3 DEF JobFits, isOpen, unclaimed, at
  <2> QED BY <1>3, <2>1, JobStays
<1>4. ASSUME NEW r \in RowIds, RowFits(d, r), r \in DOMAIN outbox', outbox'[r] = outbox[r],
             UNCHANGED upkeep, delivery'[d].attempts = delivery[d].attempts
      PROVE  Chance(d)'
  <2>1. Lost(r)' <=> Lost(r)
    BY <1>1, <1>4 DEF Lost, jobOf
  <2> QED BY <1>4, <2>1, RowStays DEF RowFits
<1>5. CASE GiveUp \/ (cleanupOldEvents /\ ~(RetentionDays > 0 /\ expired))
  <2>1. UNCHANGED <<delivery, outbox, upkeep>>
    BY <1>5 DEF GiveUp, cleanupOldEvents
  <2>2. Chance(d)
    BY <1>1, <2>1 DEF Awaited
  <2> QED BY <1>3, <1>4, <2>1, <2>2 DEF Chance, RowFits
<1>6. CASE cleanupOldEvents /\ RetentionDays > 0 /\ expired
  BY <1>6 DEF cleanupOldEvents, Awaited, DeliveryTyped
<1>7. CASE cleanupPublishedOutboxRows
  <2>1. UNCHANGED <<delivery, upkeep>>
    BY <1>7 DEF cleanupPublishedOutboxRows
  <2>2. Chance(d)
    BY <1>1, <2>1 DEF Awaited
  <2>3. ASSUME NEW r \in RowIds, RowFits(d, r) PROVE r \in DOMAIN outbox' /\ outbox'[r] = outbox[r]
    <3>1. r \in DOMAIN outbox /\ outbox[r].age \in Int
      BY <2>3, RowsTyped DEF RowFits
    <3>2. outbox[r].published => ~(outbox[r].age >= Week)
      BY <2>3, <3>1 DEF RowFits, LostAge
    <3> QED BY <1>7, <3>1, <3>2 DEF cleanupPublishedOutboxRows, without
  <2> QED BY <1>3, <1>4, <2>1, <2>2, <2>3 DEF Chance
<1>8. CASE \E c \in Deliveries : recoverStaleDelivery(c)
  <2>1. PICK c \in Deliveries : recoverStaleDelivery(c)
    BY <1>8
  <2>2. update(c, "FAILED") /\ create(c, delivery[c].attempts + 1) /\ UNCHANGED upkeep
    BY <2>1 DEF recoverStaleDelivery
  <2>3. c # d /\ delivery'[d] = delivery[d]
    BY <2>2, UpdateTyped DEF Awaited, DeliveryStatuses
  <2>4. Chance(d)
    BY <1>1, <1>2, <2>3 DEF Awaited
  <2>5. \A r \in DOMAIN outbox : r \in DOMAIN outbox' /\ outbox'[r] = outbox[r]
    <3>1. PICK q \in freeIds(c) : outbox' = with(outbox, q, newRow(delivery[c].attempts + 1))
      BY <2>2 DEF create
    <3> DEFINE new == newRow(delivery[c].attempts + 1)
    <3>2. q \notin DOMAIN outbox /\ outbox' = with(outbox, q, new)
      BY <3>1 DEF freeIds
    <3> HIDE DEF new
    <3> QED BY <3>2 DEF with
  <2> QED BY <1>3, <1>4, <2>2, <2>3, <2>4, <2>5 DEF Chance, RowFits
<1>9. CASE recoverStrandedPublishedOutbox
  <2>1. UNCHANGED delivery /\ DOMAIN outbox' = DOMAIN outbox
    BY <1>9 DEF recoverStrandedPublishedOutbox
  <2>2. Chance(d) /\ delivery[d].status = "PENDING"
    BY <1>1, <1>2, <2>1 DEF Awaited
  <2>3. ASSUME NEW r \in RowIds, RowFits(d, r) PROVE Chance(d)'
    <3>1. r \in DOMAIN outbox /\ outbox[r] \in Rows
      BY <2>3 DEF RowFits, OutboxTyped
    <3>2. ~outbox'[r].published /\ outbox'[r].attempt = outbox[r].attempt
      <4>1. CASE stranded(r)
        <5>1. outbox'[r] = [outbox[r] EXCEPT !.published = FALSE, !.tries = @ + 1]
          BY <1>9, <3>1, <4>1 DEF recoverStrandedPublishedOutbox
        <5> QED BY <3>1, <5>1 DEF Rows
      <4>2. CASE ~stranded(r)
        <5>1. outbox'[r] = outbox[r]
          BY <1>9, <3>1, <4>2 DEF recoverStrandedPublishedOutbox
        <5>2. ~outbox[r].published
          BY <2>2, <2>3, <4>2 DEF stranded, RowFits, Lost, jobOf
        <5> QED BY <5>1, <5>2
      <4> QED BY <4>1, <4>2
    <3>3. RowFits(d, r)' /\ RowIds' = RowIds
      BY <2>1, <2>3, <3>2 DEF RowFits, RowIds
    <3> QED BY <3>3 DEF Chance
  <2> QED BY <1>3, <2>1, <2>2, <2>3 DEF Chance
<1> QED BY <1>5, <1>6, <1>7, <1>8, <1>9 DEF Maintenance

LEMMA LossChance ==
    \A d \in Deliveries : RecoverInv /\ Grown /\ LoseJob /\ Awaited(d)' => Chance(d)'
<1> SUFFICES ASSUME NEW d \in Deliveries, RecoverInv, Grown, LoseJob, Awaited(d)' PROVE Chance(d)'
  OBVIOUS
<1> USE DEF RecoverInv, TablesInv, Typed
<1>1. PICK i \in DOMAIN jobs :
          /\ jobs[i] = "waiting" /\ missed(i)
          /\ jobs' = without(jobs, {i}) \/ jobs' = [jobs EXCEPT ![i] = "failed"]
  BY DEF LoseJob
<1>2. UNCHANGED <<delivery, outbox, worker, strayed>>
  BY DEF LoseJob
<1>3. UNCHANGED upkeep /\ Chance(d)
  BY <1>1, <1>2 DEF missed, Awaited
<1>4. /\ DOMAIN jobs' \subseteq DOMAIN jobs
      /\ \A j \in DOMAIN jobs : j # i => j \in DOMAIN jobs' /\ jobs'[j] = jobs[j]
      /\ i \in DOMAIN jobs' => jobs'[i] = "failed"
  BY <1>1 DEF without
<1>5. ASSUME NEW r \in RowIds, RowFits(d, r) PROVE Chance(d)'
  <2>1. r \in DOMAIN outbox' /\ outbox'[r] = outbox[r] /\ jobOf(r)' = jobOf(r)
    BY <1>2, <1>5 DEF RowFits, jobOf
  <2>2. outbox[r].published => Lost(r)'
    <3> SUFFICES ASSUME Lost(r) PROVE Lost(r)'
      BY <1>5 DEF RowFits
    <3>1. jobOf(r) # i
      BY <1>1 DEF Lost
    <3> QED BY <1>4, <2>1, <3>1 DEF Lost
  <2> QED BY <1>2, <1>3, <1>5, <2>1, <2>2, RowStays
<1>6. ASSUME NEW j \in Jobs, JobFits(d, j) PROVE Chance(d)'
  <2>1. CASE j = i
    BY <1>1, <1>2, <1>4, <1>6, <2>1, Missed DEF Awaited
  <2>2. CASE j # i
    <3>1. j \in DOMAIN jobs' /\ jobs'[j] = jobs[j]
      BY <1>4, <1>6, <2>2 DEF JobFits
    <3>2. isOpen(j)'
      BY <1>2, <1>6, <3>1 DEF JobFits, isOpen, unclaimed, at
    <3> QED BY <1>2, <1>6, <3>1, <3>2, JobStays
  <2> QED BY <2>1, <2>2
<1> QED BY <1>3, <1>5, <1>6 DEF Chance

LEMMA DayChance ==
    \A d \in Deliveries : RecoverInv /\ Grown /\ Day /\ Awaited(d)' => Chance(d)'
<1> SUFFICES ASSUME NEW d \in Deliveries, RecoverInv, Grown, Day, Awaited(d)' PROVE Chance(d)'
  OBVIOUS
<1> USE DEF RecoverInv, TablesInv, Typed
<1>1. upkeep = "done" /\ upkeep' = "due" /\ UNCHANGED <<jobs, worker, strayed>>
  BY DEF Day, Awaited
<1>2. delivery'[d].status = delivery[d].status /\ delivery'[d].attempts = delivery[d].attempts
  BY DEF Day, DeliveryTyped
<1>3. Chance(d)
  BY <1>1, <1>2 DEF Awaited
<1>4. ASSUME NEW r \in RowIds, RowFits(d, r) PROVE Chance(d)'
  <2>1. /\ r \in DOMAIN outbox' /\ jobOf(r)' = jobOf(r)
        /\ outbox'[r].attempt = outbox[r].attempt /\ outbox'[r].published = outbox[r].published
        /\ outbox'[r].age <= outbox[r].age + 1
        /\ outbox[r].age \in Int /\ outbox'[r].age \in Int
    BY <1>4, DayRows DEF RowFits
  <2>2. outbox[r].published => Lost(r)'
    BY <1>1, <1>4, <2>1 DEF RowFits, Lost
  <2>3. outbox[r].published => outbox'[r].age <= LostAge'
    BY <1>1, <1>4, <2>1 DEF RowFits, LostAge
  <2>4. RowFits(d, r)' /\ RowIds' = RowIds
    BY <1>2, <1>4, <2>1, <2>2, <2>3 DEF RowFits, RowIds
  <2> QED BY <2>4 DEF Chance
<1>5. ASSUME NEW j \in Jobs, JobFits(d, j) PROVE Chance(d)'
  <2>1. j \in DOMAIN jobs' /\ isOpen(j)'
    BY <1>1, <1>5 DEF JobFits, isOpen, unclaimed, at
  <2> QED BY <1>2, <1>5, <2>1, JobStays
<1> QED BY <1>3, <1>4, <1>5 DEF Chance

LEMMA ReplayChance ==
    \A c, d \in Deliveries :
        RecoverInv /\ Grown /\ (ReplayCheck(c) \/ ReplayReset(c)) /\ Awaited(d)' => Chance(d)'
<1> SUFFICES ASSUME NEW c \in Deliveries, NEW d \in Deliveries, RecoverInv, Grown,
                    ReplayCheck(c) \/ ReplayReset(c), Awaited(d)'
             PROVE  Chance(d)'
  OBVIOUS
<1> USE DEF RecoverInv, TablesInv, Typed
<1>1. UNCHANGED <<jobs, worker, upkeep>>
  BY DEF ReplayCheck, ReplayReset
<1>2. ASSUME delivery'[d] = delivery[d], d \in strayed => d \in strayed', RowsKept
      PROVE  Chance(d)'
  <2>1. Chance(d)
    BY <1>1, <1>2 DEF Awaited
  <2>2. ASSUME NEW r \in RowIds, RowFits(d, r) PROVE Chance(d)'
    <3>1. r \in DOMAIN outbox' /\ outbox'[r] = outbox[r]
      BY <1>2, <2>2 DEF RowFits, RowsKept
    <3>2. Lost(r)' <=> Lost(r)
      BY <1>1, <3>1 DEF Lost, jobOf
    <3> QED BY <1>1, <1>2, <2>2, <3>1, <3>2, RowStays DEF RowFits
  <2>3. ASSUME NEW j \in Jobs, JobFits(d, j) PROVE Chance(d)'
    <3>1. j \in DOMAIN jobs' /\ isOpen(j)'
      BY <1>1, <2>3 DEF JobFits, isOpen, unclaimed, at
    <3> QED BY <1>2, <2>3, <3>1, JobStays
  <2> QED BY <2>1, <2>2, <2>3 DEF Chance
<1>3. CASE UNCHANGED <<delivery, outbox, strayed>>
  BY <1>2, <1>3 DEF RowsKept
<1>4. CASE ReplayReset(c) /\ exists(c)
  <2>1. /\ delivery' = [delivery EXCEPT ![c] = [status |-> "PENDING", attempts |-> 0, age |-> 0]]
        /\ create(c, 1) /\ strayed' = strayed \ {c}
    BY <1>4 DEF ReplayReset, resetForReplay
  <2>2. 1 \in Attempts' \ {0}
    <3>1. faults' \in Nat
      BY DEF Grown, FaultsTyped
    <3>2. 1 \in 1..(MaxAttempts + faults')
      BY <3>1, AttemptsFacts, Zenon
    <3> QED BY <3>2 DEF Attempts
  <2>3. PICK r \in RowIds : Creates(c, 1, r)
    BY <2>1, <2>2, Created
  <2>4. CASE c = d
    <3>1. 1 = delivery'[d].attempts + 1
      BY <2>1, <2>4 DEF DeliveryTyped
    <3> QED BY <2>3, <2>4, <3>1, NewChance
  <2>5. CASE c # d
    <3>1. delivery'[d] = delivery[d] /\ (d \in strayed => d \in strayed')
      BY <2>1, <2>5 DEF DeliveryTyped
    <3> QED BY <1>2, <2>3, <3>1, CreatesKept
  <2> QED BY <2>4, <2>5
<1> QED BY <1>3, <1>4 DEF ReplayCheck, ReplayReset

LEMMA RecoverStep == RecoverInv /\ [Next]_vars => RecoverInv'
<1> SUFFICES ASSUME RecoverInv, [Next]_vars PROVE RecoverInv'
  OBVIOUS
<1>1. TablesInv' /\ Grown
  BY TablesStep, FaultsGrow DEF RecoverInv, TablesInv, Typed
<1>2. ASSUME NEW d \in Deliveries, Awaited(d)' PROVE Chance(d)'
  <2>1. ASSUME NEW w \in Workers, WorkerStep(w) PROVE Chance(d)'
    BY <1>1, <1>2, <2>1, FindChance, WorkerChance
  <2>2. CASE Publish \/ Maintenance \/ LoseJob \/ Day
    BY <1>1, <1>2, <2>2, PublishChance, MaintenanceChance, LossChance, DayChance
  <2>3. CASE \E c \in Deliveries : ReplayCheck(c) \/ ReplayReset(c)
    BY <1>1, <1>2, <2>3, ReplayChance
  <2>4. CASE UNCHANGED vars
    <3>1. UNCHANGED <<delivery, outbox, jobs, worker, faults, upkeep, strayed>>
      BY <2>4 DEF vars
    <3>2. Awaited(d) /\ Chance(d)
      BY <1>2, <3>1 DEF RecoverInv, Awaited
    <3> QED BY <3>1, <3>2 DEF Chance, RowFits, JobFits, Lost, jobOf, LostAge, isOpen, unclaimed, at,
                              RowIds, Jobs, Attempts
  <2> QED BY <2>1, <2>2, <2>3, <2>4 DEF Next
<1> QED BY <1>1, <1>2 DEF RecoverInv

LEMMA InitRecover == Init => RecoverInv
<1> SUFFICES ASSUME Init, NEW d \in Deliveries PROVE TablesInv /\ Chance(d)
  BY InitTables DEF RecoverInv
<1>1. /\ <<d, 1>> \in DOMAIN outbox /\ <<d, 1>> \in RowIds
      /\ outbox[<<d, 1>>] = newRow(1) /\ delivery[d].attempts = 0
  <2>1. 1 \in 1..MaxRows
    OBVIOUS
  <2> QED BY <2>1 DEF Init, RowIds
<1>2. RowFits(d, <<d, 1>>)
  BY <1>1 DEF RowFits, newRow
<1> QED BY <1>1, <1>2, InitTables DEF Chance

(* PendingRecoverable: for any number of deliveries, workers, replays and      *)
(* faults, a pending delivery whose last refusal was of its next attempt has a *)
(* job that will claim or cancel it, or a row that will become one or tells    *)
(* recovery that the job has failed or gone, as long as maintenance completes  *)
(* every day and no job fails or gets lost that outlives its row.              *)
THEOREM PendingRecoverable == Spec => []Recoverable
<1>1. RecoverInv => Recoverable
  <2> SUFFICES ASSUME RecoverInv, NEW d \in Deliveries \ strayed,
                      delivery[d].status = "PENDING", upkeep # "lapsed"
               PROVE  hasRow(d) \/ hasJob(d)
    BY DEF Recoverable
  <2>1. Chance(d)
    BY DEF RecoverInv, Awaited
  <2>2. ASSUME NEW r \in RowIds, RowFits(d, r) PROVE hasRow(d)
    <3>1. outbox[r].published => stranded(r)
      BY <2>2 DEF RowFits, Lost, jobOf, stranded
    <3> QED BY <2>2, <3>1 DEF RowFits, hasRow
  <2>3. ASSUME NEW j \in Jobs, JobFits(d, j) PROVE hasJob(d)
    BY <2>3 DEF JobFits, hasJob
  <2> QED BY <2>1, <2>2, <2>3 DEF Chance
<1> QED BY <1>1, InitRecover, RecoverStep, PTL DEF Spec
=============================================================================
