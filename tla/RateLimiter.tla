------------------------------ MODULE RateLimiter ------------------------------
(* RedisRateLimiterAdapter: one token bucket per scope in a Redis hash, read,  *)
(* refilled and charged by one atomic script, which works with what the        *)
(* calling process read on its clock before it sent the script off, while      *)
(* Redis expires the hash by its own.  Between the two other scripts run, and  *)
(* of two processes the one that read later may be the first.  Times are in    *)
(* ticks of a millisecond, Second of them to a second (1000 there), and told   *)
(* relative to the present, so that time need not end; tokens are counted in   *)
(* Second-th parts, which makes the arithmetic exact.                          *)
EXTENDS Integers

CONSTANTS
    Scopes,     \* "tenant:<id>" and "endpoint:<id>"
    Limit,      \* the rateLimit of each scope, in tokens per second
    Second,
    Lifetime,   \* PEXPIRE 2000
    Requests,   \* who asks: the deliveries in the hands of a worker
    Processes,  \* the dispatcher processes
    Spread,     \* bound: by how much a process's clock may be ahead of Redis's
    Latency,    \* bound: by how much a reading may lie behind Redis's clock by
                \* the time its script runs
    Watched,    \* the scope whose tokens an observer counts
    WindowLength    \* bound: for how long it counts them

ASSUME LimiterAssumption ==
    /\ Second \in Nat \ {0}
    /\ Limit \in [Scopes -> Nat \ {0}]
    /\ Spread \in Nat /\ Latency \in Nat
    /\ Lifetime \in Nat /\ Lifetime >= Second + Spread + Latency
    /\ Watched \in Scopes
    /\ WindowLength \in Nat

VARIABLES
    offset,     \* how far the clock of each process is ahead of true time
    asking,     \* the requests whose script is on its way to Redis
    reading,    \* how far what each of them read is ahead of the present
    bucket,     \* the hashes
    answer,     \* what each request was told and has not acted upon
    window      \* the observer's count since some moment, to the tick of a grant

limiterVars == <<offset, asking, reading, bucket, answer, window>>

Absent == [tokens |-> 0, idle |-> Lifetime, ahead |-> 0]
NoAnswer == [exceeded |-> FALSE, delay |-> 0]
EmptyWindow == [elapsed |-> 0, granted |-> 0, rewound |-> 0]

(* The hash was written `idle` ticks ago, with a reading then `ahead` ticks    *)
(* ahead: updatedAt lies idle - ahead ticks in the past.  It is gone after     *)
(* Lifetime.                                                                   *)
LimiterTypeOK ==
    /\ offset \in [Processes -> 0..Spread]
    /\ asking \subseteq Requests
    /\ reading \in [Requests -> -Latency..Spread]
    /\ bucket \in [Scopes -> [tokens : Nat, idle : 0..Lifetime, ahead : -Latency..Spread]]
    /\ answer \in [Requests -> [exceeded : BOOLEAN, delay : Nat]]
    /\ window \in [elapsed : 0..WindowLength, granted : Nat, rewound : Nat]

LimiterInit ==
    /\ offset \in [Processes -> 0..Spread]
    /\ asking = {}
    /\ reading = [r \in Requests |-> 0]
    /\ bucket = [s \in Scopes |-> Absent]
    /\ answer = [r \in Requests |-> NoAnswer]
    /\ window = EmptyWindow

present(s) == bucket[s].idle < Lifetime

least(a, b) == IF a <= b THEN a ELSE b
most(a, b) == IF a >= b THEN a ELSE b

(* ARGV[2] - updatedAt, for a reading that is `ahead` ticks ahead.             *)
sinceUpdate(s, ahead) == bucket[s].idle - bucket[s].ahead + ahead

Full(s) == Limit[s] * Second

(* Mutant: the refill of a second is given every tick.                         *)
tokensAt_Undivided(s, ahead) ==
    IF present(s)
    THEN least(Full(s), bucket[s].tokens + most(0, sinceUpdate(s, ahead)) * Full(s))
    ELSE Full(s)

(* The tokens the script finds: a missing hash is a full one, and a reading    *)
(* behind updatedAt refills nothing.                                           *)
tokensAt(s, ahead) ==
    IF present(s)
    THEN least(Full(s), bucket[s].tokens + most(0, sinceUpdate(s, ahead)) * Limit[s])
    ELSE Full(s)

(* Mutant: the delay is rounded down.                                          *)
delayFor_Down(s, tokens) == (Second - tokens) \div Limit[s]

(* math.ceil((1 - tokens) * 1000 / limit)                                      *)
delayFor(s, tokens) == (Second - tokens + Limit[s] - 1) \div Limit[s]

(* How far the script sets updatedAt back; this time will be granted once      *)
(* more.  Only observed.                                                       *)
setBack(s, ahead) == IF present(s) THEN most(0, -sinceUpdate(s, ahead)) ELSE 0

(* checkRateLimit up to its await: what ARGV[2] will be.                       *)
readClock(r, p) ==
    /\ r \notin asking
    /\ asking' = asking \cup {r}
    /\ reading' = [reading EXCEPT ![r] = offset[p]]
    /\ UNCHANGED <<offset, bucket, answer, window>>

(* The script, and checkRateLimit from its await on.                           *)
checkRateLimit(r, s) ==
    LET tokens == tokensAt(s, reading[r])
        allowed == tokens >= Second
    IN  /\ r \in asking
        /\ asking' = asking \ {r}
        /\ reading' = [reading EXCEPT ![r] = 0]
        /\ bucket' = [bucket EXCEPT ![s] =
                [tokens |-> IF allowed THEN tokens - Second ELSE tokens,
                 idle |-> 0, ahead |-> reading[r]]]
        /\ answer' = [answer EXCEPT ![r] =
                [exceeded |-> ~allowed, delay |-> IF allowed THEN 0 ELSE delayFor(s, tokens)]]
        /\ window' = IF s # Watched THEN window
                     ELSE [window EXCEPT !.granted = IF allowed THEN @ + 1 ELSE @,
                                         !.rewound = @ + setBack(s, reading[r])]
        /\ UNCHANGED offset

consume(r) ==
    /\ answer' = [answer EXCEPT ![r] = NoAnswer]
    /\ UNCHANGED <<offset, asking, reading, bucket, window>>

Tick ==
    /\ \A r \in asking : reading[r] > -Latency
    /\ reading' = [r \in Requests |-> IF r \in asking THEN reading[r] - 1 ELSE reading[r]]
    /\ bucket' = [s \in Scopes |-> IF bucket[s].idle + 1 < Lifetime
                                   THEN [bucket[s] EXCEPT !.idle = @ + 1] ELSE Absent]
    /\ window' = IF window.granted > 0 /\ window.elapsed < WindowLength
                 THEN [window EXCEPT !.elapsed = @ + 1] ELSE EmptyWindow
    /\ UNCHANGED <<offset, asking, answer>>

(* The observer starts anew.                                                   *)
OpenWindow ==
    /\ window' = EmptyWindow
    /\ UNCHANGED <<offset, asking, reading, bucket, answer>>

LimiterNext ==
    \/ Tick \/ OpenWindow
    \/ \E r \in Requests :
          \/ consume(r)
          \/ \E p \in Processes : readClock(r, p)
          \/ \E s \in Scopes : checkRateLimit(r, s)

LimiterSpec == LimiterInit /\ [][LimiterNext]_limiterVars

-----------------------------------------------------------------------------
(* WindowBound: whenever one starts to count, a scope grants at most a burst   *)
(* and its rate times the time elapsed; to this come how far the readings the  *)
(* script is given may lie apart, and once more every time one that lies       *)
(* behind sets updatedAt back.                                                 *)
WindowBound ==
    window.granted * Second
        <= Limit[Watched] * (Second + window.elapsed + window.rewound + Spread + Latency)

OneClock == \A p \in Processes : offset[p] = 0

(* The script of a request runs after that of one that has read the clock      *)
(* later, in another process (ioredis keeps the order of one connection).      *)
SetBack == \E r \in Requests, s \in Scopes : checkRateLimit(r, s) /\ setBack(s, reading[r]) > 0

(* Where the ideal bucket has been read last, and how long ago: after Horizon  *)
(* it is full, whatever there was.                                             *)
Horizon == Second + Latency
inSight(s) == present(s) /\ sinceUpdate(s, 0) < Horizon

Ideal == INSTANCE IdealBucket WITH
    level <- [s \in Scopes |-> IF inSight(s) THEN bucket[s].tokens ELSE Full(s)],
    lag <- [s \in Scopes |-> IF inSight(s) THEN sinceUpdate(s, 0) ELSE Horizon]

(* OneClockIdeal: with one clock for all, the lazy refill, the rounding, the   *)
(* latency and the expiry of the hash amount to an ideal bucket that is asked  *)
(* for the moments the clock was read at, but for the scripts of two processes *)
(* that run in the opposite order of their readings.                           *)
OneClockIdeal ==
    /\ Ideal!Init
    /\ [][OneClock => SetBack \/ [Ideal!Next]_(Ideal!ibVars)]_limiterVars
=============================================================================
