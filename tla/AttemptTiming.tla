----------------------------- MODULE AttemptTiming -----------------------------
(* When a delivery is attempted: the two rate limits ProcessDeliveryUseCase    *)
(* asks in turn, the delay after a refusal, and the delay DeliveryExecutor-    *)
(* Service chooses after a failed send, all on the clocks of the processes     *)
(* that happen to do it.  Claims, jobs and rows are those of WebhookEngine;    *)
(* here a delivery is with one worker at a time.                               *)
EXTENDS RateLimiter

CONSTANTS
    Deliveries,                     \* of one tenant
    TenantScope,
    EndpointScope,                  \* of each delivery; NoScope for rateLimit null
    NoScope, Nobody,
    MaxAttempts, BaseDelay, MaxDelay,   \* config.retryConfig, whose multiplier
    Multiplier, Divisor,                \* is Multiplier / Divisor
    RetryAfter                      \* bound: the Retry-After headers receivers send

ASSUME TimingAssumption ==
    /\ Deliveries = Requests
    /\ TenantScope \in Scopes
    /\ EndpointScope \in [Deliveries -> (Scopes \ {TenantScope}) \cup {NoScope}]
    /\ MaxAttempts \in Nat \ {0} /\ BaseDelay \in Nat \ {0}
    /\ Multiplier \in Nat \ {0} /\ Divisor \in Nat \ {0}
    /\ MaxDelay \in Nat /\ MaxDelay >= BaseDelay       \* checked by ConfigService
    /\ RetryAfter \subseteq [kind : {"seconds", "date", "none"}, value : Int]

VARIABLES
    job,        \* per delivery: where it is, with which process, when it is due
    quiet,      \* for how long its last answer forbids to send it again
    refusals    \* its refusals in a row while nobody else asked the limiter

timingVars == <<limiterVars, job, quiet, refusals>>

JobPcs == {"waiting", "tenant", "granted", "endpoint", "refused", "send", "ended"}

(* availableAt lies `due` ticks ahead, 0 once no clock is before it.           *)
TypeOK ==
    /\ LimiterTypeOK
    /\ job \in [Deliveries -> [pc : JobPcs, on : Processes \cup {Nobody},
                               due : Nat, attempt : 1..MaxAttempts]]
    /\ quiet \in [Deliveries -> Nat]
    /\ refusals \in [Deliveries -> Nat]

Init ==
    /\ LimiterInit
    /\ job = [d \in Deliveries |-> [pc |-> "waiting", on |-> Nobody, due |-> 0, attempt |-> 1]]
    /\ quiet = [d \in Deliveries |-> 0]
    /\ refusals = [d \in Deliveries |-> 0]

at(d, pc) == job[d].pc = pc
finish(d) ==
    /\ job' = [job EXCEPT ![d].pc = "ended", ![d].on = Nobody]
    /\ quiet' = [quiet EXCEPT ![d] = 0]
    /\ refusals' = [refusals EXCEPT ![d] = 0]
goto(d, pc) == job' = [job EXCEPT ![d].pc = pc]
requeue(d, due, attempt) ==
    job' = [job EXCEPT ![d] = [pc |-> "waiting", on |-> Nobody, due |-> due, attempt |-> attempt]]
ahead(d) == offset[job[d].on]

-----------------------------------------------------------------------------
(* d has asked: for all others this interrupts their refusals in a row, which  *)
(* are counted while all clocks agree.                                         *)
countRefusal(d) ==
    refusals' = [o \in Deliveries |->
                    IF o # d \/ ~OneClock THEN 0
                    ELSE IF answer'[d].exceeded THEN refusals[d] + 1 ELSE refusals[d]]

hasEndpointLimit(d) == EndpointScope[d] # NoScope

(* A connection to Redis keeps the order in which its process has used it.     *)
isNext(d) == \A o \in asking : job[o].on = job[d].on => reading[d] <= reading[o]

(* A publisher, in any process, finds the row due, at once or later a worker,  *)
(* in any process, takes the job.                                              *)
AskTenantLimit(d) ==
    /\ at(d, "waiting")
    /\ \E p \in Processes : job[d].due <= offset[p]
    /\ \E p \in Processes :
          /\ readClock(d, p)
          /\ job' = [job EXCEPT ![d].pc = "tenant", ![d].on = p, ![d].due = 0]
    /\ UNCHANGED <<quiet, refusals>>

(* A limit of null or 0 is not asked.                                          *)
CheckTenantLimit(d) ==
    /\ at(d, "tenant") /\ isNext(d)
    /\ checkRateLimit(d, TenantScope)
    /\ goto(d, IF answer'[d].exceeded THEN "refused"
               ELSE IF hasEndpointLimit(d) THEN "granted" ELSE "send")
    /\ countRefusal(d)
    /\ UNCHANGED quiet

AskEndpointLimit(d) ==
    /\ at(d, "granted")
    /\ readClock(d, job[d].on)
    /\ goto(d, "endpoint")
    /\ UNCHANGED <<quiet, refusals>>

CheckEndpointLimit(d) ==
    /\ at(d, "endpoint") /\ isNext(d)
    /\ checkRateLimit(d, EndpointScope[d])
    /\ goto(d, IF answer'[d].exceeded THEN "refused" ELSE "send")
    /\ countRefusal(d)
    /\ UNCHANGED quiet

(* Of the two delays only the one that refused is not zero.                    *)
ScheduleRefused(d) ==
    /\ at(d, "refused")
    /\ requeue(d, ahead(d) + answer[d].delay, job[d].attempt)
    /\ consume(d)
    /\ UNCHANGED <<quiet, refusals>>

-----------------------------------------------------------------------------
isRetryable(status) == status >= 500 \/ status \in {408, 409, 425, 429}

(* baseDelayMs * multiplier^(n - 1) is backoff(n) / scale(n).                   *)
backoff(n) == BaseDelay * Multiplier ^ (n - 1)
scale(n) == Divisor ^ (n - 1)

(* Arithmetic the provers lack; it follows from TimingAssumption.              *)
ASSUME BackoffAssumption ==
    \A n \in 1..MaxAttempts : backoff(n) \in Nat /\ scale(n) \in Nat \ {0}

(* A quarter more or less than the backoff; Date drops fractions.              *)
shortest(n) == (3 * backoff(n)) \div (4 * scale(n))
longest(n) == (5 * backoff(n) - 1) \div (4 * scale(n))

calculateBackoffDelay(n) == {least(delay, MaxDelay) : delay \in shortest(n)..longest(n)}

(* Mutants: what the receiver asks is not capped; seconds are taken for        *)
(* milliseconds.                                                               *)
retryAfterDelay_Uncapped(header, clock) ==
    IF header.kind = "none" THEN {}
    ELSE {most(0, IF header.kind = "seconds" THEN header.value * Second ELSE header.value - clock)}

retryAfterDelay_Milliseconds(header, clock) ==
    IF header.kind = "none" THEN {}
    ELSE {least(MaxDelay, most(0, IF header.kind = "seconds" THEN header.value
                                  ELSE header.value - clock))}

(* retryAfterDelay: a number of seconds, or a date, told as the ticks until    *)
(* then and compared with a clock that is ahead; {} for a header that is       *)
(* missing or neither.                                                         *)
retryAfterDelay(header, clock) ==
    IF header.kind = "none" THEN {}
    ELSE {least(MaxDelay, most(0, IF header.kind = "seconds" THEN header.value * Second
                                  ELSE header.value - clock))}

nextAttemptDelays(d, status, header) ==
    LET asked == IF status = 429 THEN retryAfterDelay(header, ahead(d)) ELSE {}
    IN  IF asked # {} THEN asked ELSE calculateBackoffDelay(job[d].attempt)

(* How long the answer asks to be left in peace, in true time: a Retry-After   *)
(* as far as the maximum delay goes, otherwise three quarters of the backoff.  *)
askedFor(d, status, header) ==
    IF status = 429 /\ header.kind = "seconds" THEN least(MaxDelay, header.value * Second)
    ELSE IF status = 429 /\ header.kind = "date" THEN least(MaxDelay, header.value)
    ELSE least(MaxDelay, shortest(job[d].attempt))

Succeed(d) ==
    /\ at(d, "send")
    /\ finish(d)
    /\ UNCHANGED limiterVars

(* Mutant: one attempt too many.                                               *)
isLast_OneMore(d) == job[d].attempt > MaxAttempts

isLast(d) == job[d].attempt >= MaxAttempts

(* The catch block of the executor, for an answer with this status and header. *)
Fail(d, status, header) ==
    /\ at(d, "send")
    /\ IF isLast(d) \/ ~isRetryable(status)
       THEN finish(d)
       ELSE /\ \E delay \in nextAttemptDelays(d, status, header) :
                 requeue(d, ahead(d) + delay, job[d].attempt + 1)
            /\ quiet' = [quiet EXCEPT ![d] = most(0, askedFor(d, status, header))]
            /\ refusals' = [refusals EXCEPT ![d] = 0]
    /\ UNCHANGED limiterVars

-----------------------------------------------------------------------------
Wait ==
    /\ Tick
    /\ job' = [d \in Deliveries |-> [job[d] EXCEPT !.due = most(0, @ - 1)]]
    /\ quiet' = [d \in Deliveries |-> most(0, quiet[d] - 1)]
    /\ UNCHANGED refusals

Step(d) ==
    \/ AskTenantLimit(d) \/ CheckTenantLimit(d)
    \/ AskEndpointLimit(d) \/ CheckEndpointLimit(d)
    \/ ScheduleRefused(d)
    \/ Succeed(d)
    \/ \E status \in {404, 429, 503}, header \in RetryAfter : Fail(d, status, header)

Next ==
    \/ \E d \in Deliveries : Step(d)
    \/ OpenWindow /\ UNCHANGED <<job, quiet, refusals>>
    \/ Wait

Spec == Init /\ [][Next]_timingVars

-----------------------------------------------------------------------------
(* RetryRespected: a delivery is not sent again before its last answer allows, *)
(* whichever process schedules, publishes and sends it, but for the difference *)
(* of their clocks.                                                            *)
RetryRespected ==
    \A d \in Deliveries : at(d, "send") => quiet[d] <= Spread

(* WaitBounded: nothing a receiver or the limiter says postpones a delivery    *)
(* beyond the maximum delay, or the second a token takes.                      *)
WaitBounded ==
    \A d \in Deliveries :
        at(d, "waiting") => job[d].due <= Spread + most(MaxDelay, Second)

(* RefusalsEnd: a delivery that nobody competes with is refused at most three  *)
(* times in a row: the endpoint's limit refuses once, and the tenant's limit   *)
(* before and, because the refused attempt has taken its token, after that.    *)
RefusalsEnd == OneClock => \A d \in Deliveries : refusals[d] <= 3
=============================================================================
