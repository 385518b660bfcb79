------------------------------ MODULE IdealBucket ------------------------------
(* What a rate limiter promises: per scope a bucket of Limit tokens, full at   *)
(* the start, that gains Limit tokens per second, never holds more than Limit, *)
(* and gives one token to every request that finds one.  A request that finds  *)
(* none is told the shortest time after which there would be one.  A request   *)
(* counts as of a moment at most Latency ago, and of two the one served later  *)
(* never as of an earlier moment.  The clock ticks Second times a second;      *)
(* levels count the Second-th parts of a token.                                *)
EXTENDS Integers

CONSTANTS Scopes, Limit, Second, Latency, Requests

VARIABLES
    level,      \* what was left at the moment of the last request
    lag,        \* how long that moment is ago; Horizon for longer than matters
    answer

ibVars == <<level, lag, answer>>

Full(s) == Limit[s] * Second
Horizon == Second + Latency

NoAnswer == [exceeded |-> FALSE, delay |-> 0]

Init ==
    /\ level = [s \in Scopes |-> Full(s)]
    /\ lag = [s \in Scopes |-> Horizon]
    /\ answer = [r \in Requests |-> NoAnswer]

Tick ==
    /\ level' = [s \in Scopes |-> IF lag[s] + 1 < Horizon THEN level[s] ELSE Full(s)]
    /\ lag' = [s \in Scopes |-> IF lag[s] + 1 < Horizon THEN lag[s] + 1 ELSE Horizon]
    /\ UNCHANGED answer

(* The level n ticks after the last request.                                   *)
refilled(s, n) ==
    IF level[s] + n * Limit[s] > Full(s) THEN Full(s) ELSE level[s] + n * Limit[s]

Grant(r, s, n) ==
    /\ refilled(s, n) >= Second
    /\ level' = [level EXCEPT ![s] = refilled(s, n) - Second]
    /\ answer' = [answer EXCEPT ![r] = NoAnswer]

Refuse(r, s, n) ==
    /\ refilled(s, n) < Second
    /\ level' = [level EXCEPT ![s] = refilled(s, n)]
    /\ \E wait \in 1..Second :
          /\ refilled(s, n) + wait * Limit[s] >= Second
          /\ refilled(s, n) + (wait - 1) * Limit[s] < Second
          /\ answer' = [answer EXCEPT ![r] = [exceeded |-> TRUE, delay |-> wait]]

Serve(r, s) ==
    \E ago \in 0..Latency :
        /\ ago <= lag[s]
        /\ lag' = [lag EXCEPT ![s] = ago]
        /\ Grant(r, s, lag[s] - ago) \/ Refuse(r, s, lag[s] - ago)

(* The one who asked has acted on the answer.                                  *)
Consume(r) ==
    /\ answer' = [answer EXCEPT ![r] = NoAnswer]
    /\ UNCHANGED <<level, lag>>

Next ==
    \/ Tick
    \/ \E r \in Requests : Consume(r) \/ \E s \in Scopes : Serve(r, s)

Spec == Init /\ [][Next]_ibVars
=============================================================================
