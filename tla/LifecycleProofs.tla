---------------------------- MODULE LifecycleProofs ----------------------------
(* Every delivery lives the life that DeliveryLifecycle describes: the steps   *)
(* of workers, publishers, time and faults, kind by kind, are steps of the     *)
(* abstract delivery or leave it as it is.  And an event ends as its           *)
(* deliveries do, where its marking transactions cannot overlap.               *)
EXTENDS AttemptProofs

(* The state OnlyClaimersWrite speaks of: what it asks of the next state holds *)
(* of this one too, since nothing spent is given back.                         *)
OnlyClaimersWrote(d) ==
    NotReplayed(d) /\ \A kind \in {"limit", "toggle", "db", "slow"} : Spent(kind) = 0

(* A transaction was opened by the worker that is about to commit it, for the  *)
(* outcome that worker has seen; no worker has two.                            *)
TxOK ==
    /\ \A t \in tx : /\ worker[t.by].pc \in MarkingPcs
                     /\ t.delivery = deliveryId(t.by)
                     /\ t.status = MarkStatus(worker[t.by].pc)
    /\ \A t, u \in tx : t.by = u.by => t = u

NeverCancelled ==
    Spent("toggle") = 0 => /\ \A p \in Endpoints : active[p]
                           /\ \A w \in Workers : worker[w].pc # "cancel"

(* Whoever is between claim and outcome finds its delivery PROCESSING.         *)
HoldersProcess(d) ==
    OnlyClaimersWrote(d) /\ Held(d) => delivery[d].status = "PROCESSING"

LifeOK ==
    /\ SenderOK /\ TxOK /\ NeverRefused /\ NeverCancelled /\ RetryAllowed
    /\ \A d \in Deliveries : HoldersProcess(d)

LEMMA InitLife == Init => LifeOK
<1> SUFFICES ASSUME Init PROVE LifeOK
  OBVIOUS
<1>1. NeverRefused /\ RetryAllowed
  BY DEF Init, DispatcherInit, NeverRefused, RetryAllowed
<1>2. TxOK /\ NeverCancelled
  BY DEF Init, StoreInit, DispatcherInit, TxOK, NeverCancelled
<1> QED
  BY <1>1, <1>2, InitSender
  DEF Init, DispatcherInit, LifeOK, HoldersProcess, Held, Holds, HoldingPcs

-----------------------------------------------------------------------------
LEMMA WroteBefore ==
    ASSUME Typed, SenderOK, StepKind, NEW d \in Deliveries, OnlyClaimersWrite(d)
    PROVE  /\ OnlyClaimersWrote(d) /\ OnlyClaimersWrote(d)' /\ Clean(d)
           /\ \A kind \in {"limit", "toggle", "db", "slow"} : ~Spend(kind)
<1>1. \A kind \in {"limit", "toggle", "db", "slow"} : Spent(kind) = 0 /\ ~Spend(kind)
  BY KindSpends, SpentStep DEF FaultKinds, SenderOK, OnlyClaimersWrite
<1>2. delivery[d].resets \in Nat
  BY DeliveryRecord
<1>3. delivery[d].resets = 0
  <2>1. CASE \E w \in Workers : Begins(w, d)
    BY <2>1 DEF Begins, OnlyClaimersWrite, NotReplayed
  <2> QED BY <1>2, <2>1, OnlyClaimsCount DEF OnlyClaimersWrite, NotReplayed
<1> QED
  BY <1>1, <1>3 DEF OnlyClaimersWrite, OnlyClaimersWrote, NotReplayed, Clean

LEMMA CancelledStep ==
    ASSUME Typed, BudgetOK, StepKind, NeverCancelled
    PROVE  NeverCancelled'
<1> SUFFICES ASSUME Spent("toggle")' = 0
             PROVE  /\ \A p \in Endpoints : active'[p]
                    /\ \A v \in Workers : worker'[v].pc # "cancel"
  BY DEF NeverCancelled
<1>1. Spent("toggle") = 0 /\ ~Spend("toggle")
  BY KindSpends, SpentStep DEF FaultKinds
<1>2. /\ \A p \in Endpoints : active[p]
      /\ \A v \in Workers : worker[v].pc # "cancel"
  BY <1>1 DEF NeverCancelled
<1>3. UNCHANGED active
  BY <1>1 DEF StepKind, AnyKind, Works, Begins, Records, Retries, Delays, Recovers, Resets, Ages,
     Accepts, Snaps, Switches, Rests
<1>4. ASSUME NEW w \in Workers, Works(w), NEW v \in Workers PROVE worker'[v].pc # "cancel"
  <2>1. worker[w].pc = "find" => deliveryId(w)[2] \in Endpoints
    BY JobTyped DEF Deliveries
  <2> QED BY <1>2, <1>4, <2>1, WorksMoves DEF WorksTable, BeginMark
<1>5. ASSUME NEW w \in Workers, NEW to \in {"send", "done"}, Answers(w, to),
             worker[w].pc # "idle", NEW v \in Workers
      PROVE  worker'[v].pc # "cancel"
  BY <1>2, <1>5, AnswerMoves
<1>6. \A v \in Workers : worker'[v].pc # "cancel"
  BY <1>2, <1>4, <1>5 DEF StepKind, AnyKind, Begins, Records, Retries, Delays, MarkingPcs, Recovers,
     Resets, Ages, Accepts, Snaps, Switches, Rests
<1> QED
  BY <1>2, <1>3, <1>6

(* A transaction ends before its worker moves on.                              *)
LEMMA TxKept ==
    ASSUME Typed, StoreStep, TxOK, NEW w \in Workers, tx' \subseteq tx,
           \A v \in Workers : v # w => worker'[v] = worker[v],
           \/ worker[w].pc \notin MarkingPcs
           \/ \A t \in tx' : t.by # w
    PROVE  TxOK'
<1> SUFFICES ASSUME NEW t \in tx'
             PROVE  /\ worker'[t.by].pc \in MarkingPcs
                    /\ t.delivery = deliveryId(t.by)'
                    /\ t.status = MarkStatus(worker'[t.by].pc)
  BY DEF TxOK, MarkStatus
<1>1. t \in tx /\ t.by \in Workers
  BY TypedParts DEF StoreTypeOK, OpenTx
<1>2. worker[t.by].pc \in MarkingPcs /\ t.by # w
  BY <1>1 DEF TxOK
<1>3. worker'[t.by] = worker[t.by] /\ deliveryId(t.by)' = deliveryId(t.by)
  BY <1>1, <1>2, KeptJob DEF MarkingPcs
<1> QED
  BY <1>1, <1>2, <1>3 DEF TxOK

LEMMA BeginMarkTx ==
    ASSUME Typed, StoreStep, TxOK, NEW w \in Workers, BeginMark(w)
    PROVE  TxOK'
<1>1. PICK t : /\ t.by = w /\ t.delivery = deliveryId(w) /\ t.status = MarkStatus(worker[w].pc)
               /\ tx' = tx \cup {t}
  <2> DEFINE others == {delivery[o].status :
                           o \in DeliveriesOf(deliveryId(w)[1]) \ {deliveryId(w)}}
             status == MarkStatus(worker[w].pc)
             t == [by |-> w, delivery |-> deliveryId(w), status |-> status,
                   event |-> calculateEventStatus(others \cup {status})]
  <2>1. tx' = tx \cup {t}
    BY DEF BeginMark, beginMark
  <2> QED BY <2>1
<1>2. /\ worker[w].pc \in MarkingPcs /\ UNCHANGED worker
      /\ \A u \in tx : u.by # w
  BY DEF BeginMark
<1>3. \A v \in Workers : worker[v].pc \in MarkingPcs => deliveryId(v)' = deliveryId(v)
  BY <1>2, KeptJob DEF MarkingPcs
<1>4. \A u \in tx' : /\ worker'[u.by].pc \in MarkingPcs
                     /\ u.delivery = deliveryId(u.by)'
                     /\ u.status = MarkStatus(worker'[u.by].pc)
  <2> SUFFICES ASSUME NEW u \in tx'
               PROVE  /\ worker[u.by].pc \in MarkingPcs
                      /\ u.delivery = deliveryId(u.by)'
                      /\ u.status = MarkStatus(worker[u.by].pc)
    BY <1>2 DEF MarkStatus
  <2>1. CASE u \in tx
    <3>1. u.by \in Workers
      BY <2>1, TypedParts DEF StoreTypeOK, OpenTx
    <3> QED BY <1>3, <2>1, <3>1 DEF TxOK
  <2> QED BY <1>1, <1>2, <1>3, <2>1
<1>5. \A u, v \in tx' : u.by = v.by => u = v
  BY <1>1, <1>2 DEF TxOK
<1> QED
  BY <1>4, <1>5 DEF TxOK

LEMMA TxStep ==
    ASSUME Typed, StepKind, TxOK
    PROVE  TxOK'
<1>1. StoreStep
  BY DEF StepKind
<1>2. ASSUME UNCHANGED <<worker, tx>> PROVE TxOK'
  <2>1. \A t \in tx : t.by \in Workers /\ deliveryId(t.by)' = deliveryId(t.by)
    <3> SUFFICES ASSUME NEW t \in tx
                 PROVE  t.by \in Workers /\ deliveryId(t.by)' = deliveryId(t.by)
      OBVIOUS
    <3>1. t.by \in Workers /\ worker[t.by].pc \in MarkingPcs
      BY TypedParts DEF StoreTypeOK, OpenTx, TxOK
    <3> QED BY <1>1, <1>2, <3>1, KeptJob DEF MarkingPcs
  <2> QED BY <1>2, <2>1 DEF TxOK, MarkStatus
<1>3. ASSUME NEW w \in Workers, Works(w) PROVE TxOK'
  <2>1. WorksTable(w)
    BY <1>3, WorksMoves
  <2>2. CASE BeginMark(w)
    BY <1>1, <2>2, BeginMarkTx
  <2>3. CASE UNCHANGED tx /\ worker[w].pc \notin MarkingPcs
    BY <1>1, <2>1, <2>3, TxKept DEF WorksTable
  <2>4. CASE rollback(w)
    BY <1>1, <2>1, <2>4, TxKept DEF WorksTable, rollback
  <2> QED BY <2>1, <2>2, <2>3, <2>4 DEF WorksTable, MarkingPcs
<1>4. ASSUME NEW w \in Workers, NEW c \in Deliveries, Records(w, c) PROVE TxOK'
  <2>1. PICK t \in tx : t.by = w /\ tx' = tx \ {t}
    BY <1>4 DEF Records
  <2>2. \A u \in tx' : u.by # w
    BY <2>1 DEF TxOK
  <2>3. \A v \in Workers : v # w => worker'[v] = worker[v]
    BY <1>4, AnswerMoves DEF Records, MarkingPcs
  <2> QED BY <1>1, <2>1, <2>2, <2>3, TxKept
<1>5. ASSUME NEW w \in Workers, NEW c \in Deliveries,
             Begins(w, c) \/ Retries(w, c) \/ Delays(w, c)
      PROVE  TxOK'
  <2>1. /\ UNCHANGED tx /\ worker[w].pc \notin MarkingPcs /\ worker[w].pc # "idle"
        /\ Answers(w, "send") \/ Answers(w, "done")
    BY <1>5 DEF Begins, Retries, Delays, MarkingPcs
  <2> QED BY <1>1, <2>1, AnswerMoves, TxKept
<1> QED
  BY <1>2, <1>3, <1>4, <1>5 DEF StepKind, AnyKind, Recovers, Resets, Ages, Accepts, Snaps, Switches,
     Rests

-----------------------------------------------------------------------------
(* The steps that change a delivery, each with what it does to its holders.    *)
LEMMA RecorderHeld ==
    ASSUME Typed, LifeOK, NEW d \in Deliveries, OnlyClaimersWrote(d),
           NEW w \in Workers, Records(w, d)
    PROVE  /\ Holds(w, d)
           /\ SetsStatus(d, "SUCCESS") \/ SetsStatus(d, "DLQ")
<1>1. /\ worker[w].pc \in MarkingPcs /\ deliveryId(w) = d
      /\ \E t \in tx : t.by = w /\ SetsStatus(d, t.status)
  BY DEF Records
<1>2. worker[w].pc \in {"succeed", "dead"}
  BY <1>1 DEF LifeOK, NeverCancelled, OnlyClaimersWrote, MarkingPcs
<1>3. SetsStatus(d, MarkStatus(worker[w].pc))
  BY <1>1 DEF LifeOK, TxOK
<1>4. MarkStatus(worker[w].pc) \in {"SUCCESS", "DLQ"}
  BY <1>2 DEF MarkStatus
<1> QED
  BY <1>1, <1>2, <1>3, <1>4 DEF Holds, HoldingPcs

(* Without a failing call whoever records or postpones lets go, and it was the *)
(* only holder.                                                                *)
LEMMA LetsGo ==
    ASSUME Typed, LifeOK, StepKind, NEW d \in Deliveries, Clean(d), ~Spend("db"),
           NEW w \in Workers, Holds(w, d), Records(w, d) \/ Retries(w, d)
    PROVE  ~Held(d)'
<1>1. Answers(w, "done") /\ worker[w].pc # "idle"
  BY DEF Records, Retries, MarkingPcs
<1>2. worker'[w].pc = "done"
  BY <1>1, AnswerMoves
<1>3. NoMoreHolders(d)
  <2>1. \A v \in Workers : ~Begins(v, d)
    BY DEF Records, Retries, Begins, SetsStatus
  <2> QED BY <2>1, OnlyClaimsHold
<1>4. \A v \in Workers : Holds(v, d) => v = w
  BY DEF LifeOK, SenderOK, SenderInv, HolderCurrent
<1> QED
  BY <1>2, <1>3, <1>4 DEF NoMoreHolders, Held, Holds, HoldingPcs

(* Recovery takes back only what nobody is at.                                 *)
LEMMA RecoveredAlone ==
    ASSUME LifeOK, NEW d \in Deliveries, Clean(d), Recovers(d)
    PROVE  ~Held(d)
  BY DEF LifeOK, SenderOK, SenderInv, OldAbandoned, Recovers

(* What is left of the steps.                                                  *)
LEMMA OtherwiseSame ==
    ASSUME Typed, LifeOK, StepKind, NEW d \in Deliveries, OnlyClaimersWrite(d),
           ~Recovers(d),
           \A w \in Workers : ~Begins(w, d) /\ ~Records(w, d) /\ ~Retries(w, d)
    PROVE  /\ delivery'[d].attempts = delivery[d].attempts
           /\ \/ delivery'[d].status = delivery[d].status
              \/ /\ delivery[d].status = "NONE" /\ delivery'[d].status = "PENDING"
                 /\ UNCHANGED worker
<1>1. OnlyClaimersWrote(d) /\ OnlyClaimersWrote(d)'
  BY WroteBefore DEF LifeOK
<1>2. \A w \in Workers : ~Delays(w, d)
  BY <1>1 DEF Delays, LifeOK, NeverRefused, OnlyClaimersWrote
<1>3. ~Resets(d)
  BY <1>1, DeliveryRecord DEF Resets, OnlyClaimersWrote, NotReplayed
<1>4. ASSUME NEW e \in Events, Accepts(e), delivery'[d] # delivery[d]
      PROVE  /\ delivery'[d].attempts = delivery[d].attempts
             /\ delivery[d].status = "NONE" /\ delivery'[d].status = "PENDING"
             /\ UNCHANGED worker
  BY <1>4 DEF Accepts, LifeOK, SenderOK, Unborn
<1> QED
  BY <1>2, <1>3, <1>4, ZenonT(40) DEF StepKind, AnyKind, Works, Begins, Records, Retries, Delays, Recovers, Resets,
     Ages, Accepts, Snaps, Switches, Rests, SetsStatus, WritesOnly

LEMMA HoldersStep ==
    ASSUME Typed, LifeOK, StepKind, NEW d \in Deliveries
    PROVE  HoldersProcess(d)'
<1> SUFFICES ASSUME OnlyClaimersWrite(d), Held(d)'
             PROVE  delivery'[d].status = "PROCESSING"
  BY DEF HoldersProcess, OnlyClaimersWrote, OnlyClaimersWrite
<1>1. /\ OnlyClaimersWrote(d) /\ Clean(d) /\ ~Spend("db")
  BY WroteBefore DEF LifeOK
<1>2. CASE \E w \in Workers : Begins(w, d)
  BY <1>2 DEF Begins
<1>3. CASE \A w \in Workers : ~Begins(w, d)
  <2>1. Held(d)
    BY <1>3, OnlyClaimsHold DEF NoMoreHolders, Held
  <2>2. delivery[d].status = "PROCESSING"
    BY <1>1, <2>1 DEF LifeOK, HoldersProcess
  <2>3. ~Recovers(d)
    BY <1>1, <2>1, RecoveredAlone
  <2>4. \A w \in Workers : ~Records(w, d) /\ ~Retries(w, d)
    <3>1. \A w \in Workers : Retries(w, d) => Holds(w, d)
      BY DEF Retries, Holds, HoldingPcs
    <3> QED BY <1>1, <3>1, RecorderHeld, LetsGo
  <2> QED BY <1>3, <2>2, <2>3, <2>4, OtherwiseSame
<1> QED
  BY <1>2, <1>3

LEMMA LifeStep ==
    ASSUME Typed, LifeOK, [Next]_vars
    PROVE  LifeOK'
<1>1. StepKind
  BY StepKinds
<1>2. SenderOK' /\ BudgetOK
  BY NextSender DEF LifeOK, SenderOK
<1>3. TxOK' /\ NeverRefused' /\ NeverCancelled' /\ RetryAllowed'
  BY <1>1, <1>2, TxStep, RefusedStep, CancelledStep, RetryStep DEF LifeOK
<1> QED
  BY <1>1, <1>2, <1>3, HoldersStep DEF LifeOK

-----------------------------------------------------------------------------
Holders(d) == {w \in Workers : Holds(w, d)}

LEMMA OneHolder ==
    ASSUME LifeOK, NEW d \in Deliveries, Clean(d), NEW w \in Workers, Holds(w, d)
    PROVE  Holders(d) = {w}
  BY DEF LifeOK, SenderOK, SenderInv, HolderCurrent, Holders

LEMMA LifeMaps ==
    ASSUME Typed, LifeOK, StepKind, NEW d \in Deliveries, OnlyClaimersWrite(d)
    PROVE  [Life(d)!Next]_(Life(d)!lifeVars)
<1>1. /\ StoreStep /\ OnlyClaimersWrote(d) /\ Clean(d) /\ ~Spend("db")
  BY WroteBefore DEF LifeOK, StepKind
<1>2. ASSUME NEW w \in Workers, Begins(w, d) PROVE Life(d)!Begin(w)
  <2>1. Holders(d) = {}
    BY <1>1, <1>2 DEF Begins, LifeOK, HoldersProcess, Held, Holders
  <2>2. /\ worker[w].pc = "claim" /\ deliveryId(w) = d /\ Answers(w, "send")
    BY <1>2 DEF Begins
  <2>3. /\ \A v \in Workers : v # w => worker'[v] = worker[v]
        /\ worker'[w].job = worker[w].job /\ worker'[w].pc = "send"
    BY <1>1, <2>2, AnswerMoves DEF Keeps
  <2>4. Holds(w, d)'
    BY <1>1, <2>2, <2>3, KeptJob DEF Holds, HoldingPcs
  <2>5. \A v \in Workers : v # w => ~Holds(v, d)'
    <3> SUFFICES ASSUME NEW v \in Workers, v # w, Holds(v, d)' PROVE FALSE
      OBVIOUS
    <3>1. worker[v].pc \in HoldingPcs /\ deliveryId(v)' = d
      BY <2>3 DEF Holds
    <3>2. deliveryId(v) = d
      BY <1>1, <2>3, <3>1, KeptJob DEF HoldingPcs
    <3> QED BY <2>1, <3>1, <3>2 DEF Holders, Holds
  <2>6. Holders(d)' = {w}
    BY <2>4, <2>5 DEF Holders
  <2> QED BY <1>2, <2>1, <2>6 DEF Life!Begin, Begins, Holders
<1>3. ASSUME NEW w \in Workers, Records(w, d) \/ Retries(w, d), Holds(w, d)
      PROVE  /\ Holders(d) = {w} /\ Holders(d)' = {} /\ delivery[d].status = "PROCESSING"
             /\ delivery[d].attempts = expectedAttempt(w)
  <2>1. Holders(d)' = {}
    BY <1>1, <1>3, LetsGo DEF Held, Holders
  <2> QED
    BY <1>1, <1>3, <2>1, OneHolder DEF LifeOK, HoldersProcess, Held, SenderOK, SenderInv, HolderCurrent
<1>4. ASSUME NEW w \in Workers, Records(w, d)
      PROVE  \E outcome \in {"SUCCESS", "DLQ"} : Life(d)!End(w, outcome)
  <2>1. PICK outcome \in {"SUCCESS", "DLQ"} : SetsStatus(d, outcome)
    BY <1>1, <1>4, RecorderHeld
  <2>2. Holds(w, d)
    BY <1>1, <1>4, RecorderHeld
  <2> QED BY <1>3, <1>4, <2>1, <2>2 DEF Life!End, SetsStatus, Holders
<1>5. ASSUME NEW w \in Workers, Retries(w, d) PROVE Life(d)!Postpone(w)
  <2>1. Holds(w, d) /\ expectedAttempt(w) < MaxAttempts
    BY <1>5 DEF Retries, Holds, HoldingPcs, LifeOK, RetryAllowed
  <2> QED BY <1>3, <1>5, <2>1 DEF Life!Postpone, Life!End, Retries, SetsStatus, Holders
<1>6. CASE Recovers(d)
  <2>1. Holders(d) = {} /\ Holders(d)' = {}
    <3>1. \A w \in Workers : ~Begins(w, d)
      BY <1>6 DEF Recovers, Begins
    <3> QED BY <1>1, <1>6, <3>1, RecoveredAlone, OnlyClaimsHold DEF NoMoreHolders, Held, Holders
  <2>2. Life(d)!Recover
    BY <1>6, <2>1 DEF Life!Recover, Recovers, SetsStatus, Holders
  <2> QED BY <2>2 DEF Life!Next
<1>7. CASE ~Recovers(d) /\ \A w \in Workers : ~Begins(w, d) /\ ~Records(w, d) /\ ~Retries(w, d)
  <2>1. NoMoreHolders(d)
    BY <1>7, OnlyClaimsHold
  <2>2. Holders(d)' = {} \/ Holders(d)' = Holders(d)
    BY <1>1, <2>1, OneHolder DEF NoMoreHolders, Holders
  <2>3. CASE delivery'[d].status = delivery[d].status
    <3>1. Life(d)!Abandon \/ UNCHANGED Life(d)!lifeVars
      BY <1>7, <2>2, <2>3, OtherwiseSame DEF Life!Abandon, Life!lifeVars, Holders
    <3> QED BY <3>1 DEF Life!Next
  <2>4. CASE delivery'[d].status # delivery[d].status
    <3>1. /\ delivery'[d].attempts = delivery[d].attempts /\ UNCHANGED worker
          /\ delivery[d].status = "NONE" /\ delivery'[d].status = "PENDING"
      BY <1>7, <2>4, OtherwiseSame
    <3>2. Holders(d) = {}
      BY <1>1, <3>1 DEF LifeOK, HoldersProcess, Held, Holders
    <3>3. Life(d)!Accept
      BY <2>2, <3>1, <3>2 DEF Life!Accept, Holders
    <3> QED BY <3>3 DEF Life!Next
  <2> QED BY <2>3, <2>4
<1> QED
  BY <1>2, <1>4, <1>5, <1>6, <1>7 DEF Life!Next

(* Lifecycle: for any numbers of workers, publishers, events and endpoints,    *)
(* and whatever is duplicated, lost, stalled or crashed, a delivery refines    *)
(* DeliveryLifecycle as long as only claimers write its outcome.               *)
THEOREM LifeImplemented == Spec => Lifecycle
<1>1. Init => \A d \in Deliveries : Life(d)!Init
  BY DEF Init, StoreInit, DispatcherInit, Holds, HoldingPcs, Life!Init
<1>2. Typed /\ LifeOK /\ [Next]_vars => LifeOK'
  BY LifeStep
<1>3. Typed /\ LifeOK /\ [Next]_vars =>
        [\A d \in Deliveries :
            OnlyClaimersWrite(d) => [Life(d)!Next]_(Life(d)!lifeVars)]_vars
  BY StepKinds, LifeMaps
<1> QED
  BY <1>1, <1>2, <1>3, InitLife, AlwaysTyped, PTL DEF Spec, Lifecycle

-----------------------------------------------------------------------------
(* EventAgrees fails when two marking transactions of an event overlap (run    *)
(* event_skew): each has read what the other was about to change.  It holds    *)
(* where the configuration keeps them apart: with one dispatcher process and   *)
(* WORKER_CONCURRENCY=1, or with a single endpoint to deliver to.              *)
KeptApart == (\A v, w \in Workers : v = w) \/ (\A p, q \in Endpoints : p = q)

StatusesOf(e) == {delivery[d].status : d \in DeliveriesOf(e)}
OthersOf(d) == {delivery[o].status : o \in DeliveriesOf(d[1]) \ {d}}

(* An event whose deliveries have ended has their status, and so has one that  *)
(* the open transaction is about to finish.                                    *)
EventRight(e) ==
    StatusesOf(e) # {} /\ StatusesOf(e) \subseteq Terminal
        => event[e] = calculateEventStatus(StatusesOf(e))

MarkRight(t) ==
    OthersOf(t.delivery) \subseteq Terminal
        => t.event = calculateEventStatus(OthersOf(t.delivery) \cup {t.status})

OneMark == \A t, u \in tx : t.delivery[1] = u.delivery[1] => t = u

EventInv == OneMark /\ (\A e \in Events : EventRight(e)) /\ (\A t \in tx : MarkRight(t))

(* The steps that finish no delivery: an event they write has one under way.   *)
Unsettles ==
    /\ tx' \subseteq tx
    /\ \A d \in Deliveries :
          delivery'[d].status = delivery[d].status \/ delivery'[d].status \in Unfinished
    /\ \A e \in Events :
          \/ event'[e] = event[e]
          \/ \A d \in Deliveries : d[1] = e => delivery'[d].status = "NONE"
          \/ \E d \in Deliveries : d[1] = e /\ delivery'[d].status \in Unfinished

LEMMA Untouched ==
    ASSUME tx' \subseteq tx, UNCHANGED <<delivery, event>>
    PROVE  Unsettles
  BY DEF Unsettles

LEMMA ClaimUnsettles ==
    ASSUME Typed, NEW c \in Deliveries, NEW n, claimForProcessing(c, n)
    PROVE  Unsettles
<1>1. /\ delivery' = [delivery EXCEPT ![c].status = "PROCESSING", ![c].attempts = @ + 1,
                                      ![c].aged = FALSE]
      /\ event' = [event EXCEPT ![c[1]] = "PROCESSING"] /\ tx' = tx
  BY DEF claimForProcessing
<1>2. /\ delivery'[c].status = "PROCESSING"
      /\ \A d \in Deliveries : d # c => delivery'[d] = delivery[d]
      /\ \A e \in Events : e # c[1] => event'[e] = event[e]
  BY <1>1, TypedParts DEF StoreTypeOK, DeliveryRow
<1> QED
  BY <1>1, <1>2 DEF Unsettles, Unfinished

LEMMA RescheduleUnsettles ==
    ASSUME Typed, NEW c \in Deliveries, NEW updated, updated.status \in Unfinished, NEW row,
           reschedule(c, updated, row), tx' = tx, \A e \in Events : e # c[1] => event'[e] = event[e]
    PROVE  Unsettles
<1>1. /\ delivery'[c].status \in Unfinished
      /\ \A d \in Deliveries : d # c => delivery'[d] = delivery[d]
  BY TypedParts DEF StoreTypeOK, reschedule
<1> QED
  BY <1>1 DEF Unsettles

LEMMA CreateUnsettles ==
    ASSUME Typed, Unborn, NEW e \in Events, Ingest(e)
    PROVE  Unsettles
<1>1. PICK S \in SUBSET Endpoints : createForTenant(e, S)
  BY DEF Ingest
<1>2. /\ event[e] = "NONE" /\ tx' = tx
      /\ \A f \in Events : f # e => event'[f] = event[f]
      /\ delivery' = [d \in Deliveries |-> IF d[1] = e /\ d[2] \in S
                                           THEN [delivery[d] EXCEPT !.status = "PENDING"]
                                           ELSE delivery[d]]
  BY <1>1, TypedParts DEF createForTenant, StoreTypeOK
<1>3. \A d \in Deliveries :
        /\ d[1] = e /\ d[2] \in S => delivery'[d].status = "PENDING"
        /\ ~(d[1] = e /\ d[2] \in S) => delivery'[d] = delivery[d]
        /\ d[1] = e => delivery[d].status = "NONE"
  BY <1>2, TypedParts DEF StoreTypeOK, DeliveryRow, Unborn
<1>4. CASE S = {}
  BY <1>2, <1>3, <1>4 DEF Unsettles
<1>5. ASSUME NEW x \in S PROVE Unsettles
  <2>1. <<e, x>> \in Deliveries /\ delivery'[<<e, x>>].status \in Unfinished
    BY <1>3 DEF Deliveries, Unfinished
  <2> QED BY <1>2, <1>3, <2>1 DEF Unsettles, Unfinished
<1> QED
  BY <1>4, <1>5

(* How a step concerns the status of events.                                   *)
Commits(w) ==
    worker[w].pc # "idle" /\ deliveryId(w) \in Deliveries /\ commitMark(w, deliveryId(w))

LEMMA EventKinds ==
    ASSUME Typed, Unborn, [Next]_vars
    PROVE  \/ Unsettles
           \/ \E w \in Workers : BeginMark(w)
           \/ \E w \in Workers : Commits(w)
<1>1. ASSUME UNCHANGED storeVars PROVE Unsettles
  BY <1>1, Untouched DEF storeVars
<1>2. ASSUME NEW w \in Workers, worker[w].pc # "idle", NEW n,
             \/ markFailedAndSchedule(deliveryId(w), n)
             \/ markRateLimitedAndSchedule(deliveryId(w), n)
      PROVE  Unsettles
  <2>1. PICK c \in Deliveries : c = deliveryId(w)
    BY <1>2, JobTyped
  <2>2. \A s \in {"FAILED", "PENDING"} : [delivery[c] EXCEPT !.status = s].status \in Unfinished
    BY TypedParts DEF StoreTypeOK, DeliveryRow, Unfinished
  <2> QED
    BY <1>2, <2>1, <2>2, RescheduleUnsettles DEF markFailedAndSchedule, markRateLimitedAndSchedule
<1>3. ASSUME NEW w \in Workers, worker[w].pc # "idle", claimForProcessing(deliveryId(w), expectedAttempt(w))
      PROVE  Unsettles
  BY <1>3, JobTyped, ClaimUnsettles
<1>4. ASSUME NEW w \in Workers, rollback(w) PROVE Unsettles
  BY <1>4, Untouched DEF rollback
<1>5. ASSUME NEW w \in Workers, WorkerStep(w) \/ WorkerFault(w)
      PROVE  Unsettles \/ BeginMark(w) \/ Commits(w)
  <2>1. CASE TakeJob(w) \/ Find(w) \/ CheckRateLimit(w) \/ Send(w) \/ Finish(w)
    BY <1>1, <2>1 DEF TakeJob, Find, CheckRateLimit, Send, Finish
  <2>2. CASE Claim(w)
    BY <1>1, <1>3, <2>2 DEF Claim, at
  <2>3. CASE MarkRateLimited(w) \/ MarkFailed(w)
    BY <1>2, <2>3 DEF MarkRateLimited, MarkFailed, at
  <2>4. CASE CommitMark(w)
    BY <2>4, JobTyped DEF CommitMark, Commits, MarkingPcs
  <2>5. CASE CallThrows(w) \/ CrashWorker(w)
    BY <1>4, <2>5 DEF CallThrows, CrashWorker
  <2>6. CASE CommitThenThrow(w)
    BY <1>2, <1>3, <2>6, JobTyped DEF CommitThenThrow, Commits, MarkingPcs, at
  <2> QED BY <1>5, <2>1, <2>2, <2>3, <2>4, <2>5, <2>6 DEF WorkerStep, WorkerFault
<1>6. ASSUME NEW p \in Publishers, BeginMaintenance(p) \/ PublisherStep(p) \/ PublisherFault(p)
      PROVE  Unsettles
  <2>1. CASE RecoverStale(p)
    <3>1. PICK s \in publisher[p].stale : recoverStale(s)
      BY <2>1 DEF RecoverStale
    <3>2. PICK c \in Deliveries : c = s.delivery
      BY PublisherRecord DEF Snapshots
    <3>3. [delivery[c] EXCEPT !.status = "FAILED"].status \in Unfinished
      BY TypedParts DEF StoreTypeOK, DeliveryRow, Unfinished
    <3> QED BY <3>1, <3>2, <3>3, RescheduleUnsettles, Untouched DEF recoverStale
  <2> QED
    BY <1>1, <1>6, <2>1, Untouched DEF BeginMaintenance, PublisherStep, PublisherFault, FindStranded,
       InspectJob, Unpublish, ReadBatch, AddJob, MarkPublished, CountFailure, AddThrows, MarkThrows,
       Abort, unpublish, setPublished, countFailure
<1>7. ASSUME NEW c \in Deliveries, ReplayReset(c) PROVE Unsettles
  <2> DEFINE fresh == [status |-> "PENDING", attempts |-> 0,
                       resets |-> delivery[c].resets + 1, aged |-> FALSE]
  <2>1. fresh.status \in Unfinished
    BY DEF Unfinished
  <2>2. /\ reschedule(c, fresh, NewRow(c, 1, TRUE)) /\ tx' = tx
        /\ \A e \in Events : e # c[1] => event'[e] = event[e]
    BY <1>7, TypedParts DEF ReplayReset, resetForReplay, StoreTypeOK
  <2> HIDE DEF fresh
  <2> QED BY <2>1, <2>2, RescheduleUnsettles
<1>8. CASE Api
  BY <1>1, <1>7, <1>8, CreateUnsettles, Untouched DEF Api, ReplayCheck, ToggleEndpoint, setActive
<1>9. ASSUME NEW c \in Deliveries, Age(c) \/ AgeHeld(c) PROVE Unsettles
  <2>1. /\ delivery' = [delivery EXCEPT ![c].aged = TRUE] /\ UNCHANGED <<tx, event>>
    BY <1>9 DEF Age, AgeHeld, age
  <2>2. \A d \in Deliveries : delivery'[d].status = delivery[d].status
    BY <2>1, TypedParts DEF StoreTypeOK, DeliveryRow
  <2> QED BY <2>1, <2>2 DEF Unsettles
<1>10. CASE Time
  BY <1>9, <1>10, Untouched DEF Time, RowDue
<1>11. CASE QueueFault \/ UNCHANGED vars
  BY <1>1, <1>11 DEF QueueFault, StallOrphan, StallLive, vars
<1> QED
  BY <1>5, <1>6, <1>8, <1>10, <1>11 DEF Next

LEMMA UnsettlesStep ==
    ASSUME Typed, EventInv, Unsettles
    PROVE  EventInv'
<1>1. OneMark'
  BY DEF EventInv, OneMark, Unsettles
<1>2. ASSUME NEW e \in Events PROVE EventRight(e)'
  <2> SUFFICES ASSUME StatusesOf(e)' # {}, StatusesOf(e)' \subseteq Terminal
               PROVE  event'[e] = calculateEventStatus(StatusesOf(e)')
    BY DEF EventRight, calculateEventStatus
  <2>1. \A d \in Deliveries : d[1] = e /\ delivery'[d].status # "NONE"
            => delivery'[d].status \in Terminal
    BY DEF StatusesOf, DeliveriesOf
  <2>2. \A d \in Deliveries : d[1] = e => delivery'[d].status = delivery[d].status
    BY <2>1 DEF Unsettles, Unfinished, Terminal
  <2>3. StatusesOf(e)' = StatusesOf(e)
    BY <2>2 DEF StatusesOf, DeliveriesOf
  <2>4. event'[e] = event[e]
    <3>1. \E d \in Deliveries : d[1] = e /\ delivery'[d].status # "NONE"
      BY DEF StatusesOf, DeliveriesOf
    <3> QED BY <2>1, <3>1 DEF Unsettles, Unfinished, Terminal
  <2> QED BY <2>3, <2>4 DEF EventInv, EventRight
<1>3. ASSUME NEW t \in tx' PROVE MarkRight(t)'
  <2> DEFINE d == t.delivery
  <2> SUFFICES ASSUME OthersOf(d)' \subseteq Terminal
               PROVE  t.event = calculateEventStatus(OthersOf(d)' \cup {t.status})
    BY DEF MarkRight, calculateEventStatus
  <2>1. t \in tx
    BY DEF Unsettles
  <2>2. \A o \in Deliveries : o[1] = d[1] /\ o # d => delivery'[o].status = delivery[o].status
    <3> SUFFICES ASSUME NEW o \in Deliveries, o[1] = d[1], o # d, delivery'[o].status # delivery[o].status
                 PROVE  FALSE
      OBVIOUS
    <3>1. delivery'[o].status \in Unfinished
      BY DEF Unsettles
    <3>2. delivery'[o].status \in Terminal
      BY <3>1 DEF OthersOf, DeliveriesOf, Unfinished
    <3> QED BY <3>1, <3>2 DEF Unfinished, Terminal
  <2>3. OthersOf(d)' = OthersOf(d)
    BY <2>2 DEF OthersOf, DeliveriesOf
  <2> QED BY <2>1, <2>3 DEF EventInv, MarkRight
<1> QED
  BY <1>1, <1>2, <1>3 DEF EventInv

LEMMA BeginStep ==
    ASSUME Typed, KeptApart, EventInv, NEW w \in Workers, BeginMark(w)
    PROVE  EventInv'
<1>1. worker[w].pc # "idle" /\ \A t \in tx : t.by # w
  BY DEF BeginMark, MarkingPcs
<1>2. PICK d \in Deliveries : d = deliveryId(w)
  BY <1>1, JobTyped
<1> DEFINE status == MarkStatus(worker[w].pc)
           new == [by |-> w, delivery |-> d, status |-> status,
                   event |-> calculateEventStatus(OthersOf(d) \cup {status})]
<1>3. tx' = tx \cup {new} /\ ~Locked(d) /\ UNCHANGED <<delivery, event>>
  BY <1>2 DEF BeginMark, beginMark, OthersOf
<1>4. \A t \in tx : t.delivery[1] # d[1]
  <2> SUFFICES ASSUME NEW t \in tx, t.delivery[1] = d[1] PROVE FALSE
    OBVIOUS
  <2>1. t.by \in Workers /\ t.delivery \in Deliveries /\ t.by # w /\ t.delivery # d
    BY <1>1, <1>3, TypedParts DEF StoreTypeOK, OpenTx, Locked
  <2>2. t.delivery[2] # d[2]
    BY <2>1 DEF Deliveries
  <2> QED BY <2>1, <2>2 DEF KeptApart, Deliveries
<1>5. OneMark'
  <2>1. new.delivery = d
    OBVIOUS
  <2> HIDE DEF new
  <2> QED BY <1>3, <1>4, <2>1 DEF EventInv, OneMark
<1>6. \A o \in Deliveries : OthersOf(o)' = OthersOf(o)
  BY <1>3 DEF OthersOf, DeliveriesOf
<1>7. \A e \in Events : StatusesOf(e)' = StatusesOf(e)
  BY <1>3 DEF StatusesOf, DeliveriesOf
<1>8. \A e \in Events : EventRight(e)'
  BY <1>3, <1>7 DEF EventInv, EventRight
<1>9. ASSUME NEW t \in tx' PROVE MarkRight(t)'
  <2>1. CASE t = new
    <3>1. t.delivery = d /\ t.event = calculateEventStatus(OthersOf(d) \cup {t.status})
      BY <2>1
    <3> HIDE DEF new
    <3> QED BY <1>6, <3>1 DEF MarkRight
  <2>2. CASE t \in tx
    <3>1. t.delivery \in Deliveries
      BY <2>2, TypedParts DEF StoreTypeOK, OpenTx
    <3> QED BY <1>6, <2>2, <3>1 DEF EventInv, MarkRight
  <2> QED BY <1>3, <2>1, <2>2
<1> QED
  BY <1>5, <1>8, <1>9 DEF EventInv

LEMMA CommitStep ==
    ASSUME Typed, EventInv, NEW w \in Workers, Commits(w)
    PROVE  EventInv'
<1>1. PICK d \in Deliveries : d = deliveryId(w)
  BY DEF Commits
<1>2. PICK t \in tx : /\ t.delivery = d
                      /\ delivery' = [delivery EXCEPT ![d].status = t.status]
                      /\ event' = [event EXCEPT ![d[1]] = t.event]
                      /\ tx' = tx \ {t}
  BY <1>1 DEF Commits, commitMark
<1>3. /\ t.status \in Terminal /\ d[1] \in Events
      /\ delivery'[d].status = t.status /\ event'[d[1]] = t.event
      /\ \A o \in Deliveries : o # d => delivery'[o] = delivery[o]
      /\ \A e \in Events : e # d[1] => event'[e] = event[e]
  BY <1>2, TypedParts DEF StoreTypeOK, OpenTx, DeliveryRow, Deliveries
<1>4. \A u \in tx' : u \in tx /\ u.delivery[1] # d[1] /\ u.delivery \in Deliveries
  BY <1>2, TypedParts DEF EventInv, OneMark, StoreTypeOK, OpenTx
<1>5. OneMark'
  BY <1>4 DEF EventInv, OneMark
<1>6. ASSUME NEW u \in tx' PROVE MarkRight(u)'
  <2>1. OthersOf(u.delivery)' = OthersOf(u.delivery)
    BY <1>3, <1>4 DEF OthersOf, DeliveriesOf
  <2> QED BY <1>4, <2>1 DEF EventInv, MarkRight
<1>7. ASSUME NEW e \in Events PROVE EventRight(e)'
  <2>1. CASE e # d[1]
    <3>1. StatusesOf(e)' = StatusesOf(e)
      BY <1>3, <2>1 DEF StatusesOf, DeliveriesOf
    <3> QED BY <1>3, <2>1, <3>1 DEF EventInv, EventRight
  <2>2. CASE e = d[1]
    <3>1. \A o \in Deliveries : o # d => (o \in DeliveriesOf(e)' <=> o \in DeliveriesOf(e))
      BY <1>3 DEF DeliveriesOf
    <3>2. d \in DeliveriesOf(e)'
      BY <1>3, <2>2 DEF DeliveriesOf, Terminal
    <3>3. StatusesOf(e)' = OthersOf(d) \cup {t.status}
      BY <1>3, <2>2, <3>1, <3>2 DEF StatusesOf, OthersOf, DeliveriesOf
    <3>4. StatusesOf(e)' \subseteq Terminal => event'[e] = calculateEventStatus(StatusesOf(e)')
      BY <1>2, <1>3, <2>2, <3>3 DEF EventInv, MarkRight
    <3> QED BY <3>4 DEF EventRight, calculateEventStatus
  <2> QED BY <2>1, <2>2
<1> QED
  BY <1>5, <1>6, <1>7 DEF EventInv

(* EventAgrees: where marking transactions of an event cannot overlap, an      *)
(* event has the status its deliveries amount to once they have ended, through *)
(* replays, recovery, failing commits and workers that die in the middle of    *)
(* one: one worker and any number of deliveries, or any number of workers and  *)
(* one delivery for each event.                                                *)
THEOREM EventsAgree ==
    ASSUME KeptApart
    PROVE  Spec => []EventAgrees
<1>1. Init => EventInv
  <2> SUFFICES ASSUME Init PROVE EventInv
    OBVIOUS
  <2>1. tx = {} /\ \A e \in Events : StatusesOf(e) = {}
    BY DEF Init, StoreInit, StatusesOf, DeliveriesOf
  <2> QED BY <2>1 DEF EventInv, OneMark, EventRight
<1>2. Typed /\ SenderOK /\ EventInv /\ [Next]_vars => EventInv'
  BY EventKinds, UnsettlesStep, BeginStep, CommitStep DEF SenderOK
<1>3. EventInv => EventAgrees
  BY DEF EventInv, EventRight, EventAgrees, StatusesOf
<1> QED
  BY <1>1, <1>2, <1>3, AlwaysScheduled, AlwaysTyped, PTL DEF Spec
=============================================================================
