-------------------------- MODULE AttemptTimingProofs --------------------------
(* Proofs about RateLimiter: for any limits, any clocks and any number of      *)
(* requests and processes, a window of any length grants no more than it       *)
(* should, and with one clock the script implements the ideal bucket, unless   *)
(* scripts of two processes change their order.  Then                          *)
(* about AttemptTiming: its deliveries use the limiter as RateLimiter allows,  *)
(* so that these theorems hold for them, and retries come neither too early    *)
(* nor too late, for any limits, clocks, delays and number of deliveries.      *)
EXTENDS AttemptTiming, TLAPS

USE DEF least, most

-----------------------------------------------------------------------------
(* Products with a limit: the steps the solver does not take by itself.        *)
LEMMA Distributes ==
    ASSUME NEW a \in Int, NEW b \in Int, NEW l \in Int
    PROVE  /\ (a + b) * l = a * l + b * l
           /\ (a - b) * l = a * l - b * l
           /\ (-a) * l = -(a * l)
           /\ a * l \in Int /\ b * l \in Int
           /\ a * l = l * a
BY SMT

LEMMA Monotone ==
    ASSUME NEW a \in Int, NEW b \in Int, NEW l \in Nat, a <= b
    PROVE  a * l <= b * l
BY SMT

(* math.ceil of a quotient, as the script rounds its delay.                    *)
LEMMA CeilingBounds ==
    ASSUME NEW n \in Nat \ {0}, NEW l \in Nat \ {0}
    PROVE  LET q == (n + l - 1) \div l
           IN  /\ q \in 1..n
               /\ q * l >= n
               /\ (q - 1) * l < n
<1> DEFINE q == (n + l - 1) \div l
<1>1. /\ q \in Int
      /\ q * l <= n + l - 1 /\ n + l - 1 < (q + 1) * l
  BY SMT
<1> QED BY <1>1, SMT

-----------------------------------------------------------------------------
(* The tokens the script would count for the oldest reading that may still     *)
(* reach it, were it to refill for negative times too.                         *)
credit ==
    IF present(Watched)
    THEN least(Full(Watched), bucket[Watched].tokens
             + (bucket[Watched].idle - bucket[Watched].ahead - Latency) * Limit[Watched])
    ELSE Full(Watched)

(* What was granted and what is still there never exceeds a full bucket and    *)
(* the refill of the time elapsed.                                             *)
Conserved ==
    window.granted * Second + credit
        <= Full(Watched) + window.elapsed * Limit[Watched] + window.rewound * Limit[Watched]

LimiterInv == LimiterTypeOK /\ Conserved

LEMMA TokensTyped ==
    ASSUME LimiterTypeOK, LimiterAssumption, NEW s \in Scopes, NEW a \in Int
    PROVE  /\ Full(s) \in Nat /\ Limit[s] \in Nat \ {0} /\ Second \in Nat \ {0}
           /\ sinceUpdate(s, a) \in Int /\ sinceUpdate(s, a) = bucket[s].idle - bucket[s].ahead + a
           /\ bucket[s].tokens \in Nat /\ bucket[s].idle \in 0..Lifetime
           /\ bucket[s].ahead \in -Latency..Spread
           /\ tokensAt(s, a) \in 0..Full(s)
           /\ setBack(s, a) \in Nat
<1>1. /\ Limit[s] \in Nat \ {0} /\ Second \in Nat \ {0} /\ Lifetime \in Nat
      /\ Spread \in Nat /\ Latency \in Nat
      /\ bucket[s].tokens \in Nat /\ bucket[s].idle \in 0..Lifetime
      /\ bucket[s].ahead \in -Latency..Spread
  BY DEF LimiterTypeOK, LimiterAssumption
<1>2. Full(s) \in Nat
  BY <1>1 DEF Full
<1>3. /\ sinceUpdate(s, a) \in Int
      /\ sinceUpdate(s, a) = bucket[s].idle - bucket[s].ahead + a
  BY <1>1 DEF sinceUpdate
<1>4. most(0, sinceUpdate(s, a)) * Limit[s] \in Nat
  BY <1>1, <1>3, SMT
<1>5. tokensAt(s, a) \in 0..Full(s)
  BY <1>1, <1>2, <1>4 DEF tokensAt
<1>6. setBack(s, a) \in Nat
  BY <1>3 DEF setBack
<1> QED BY <1>1, <1>2, <1>3, <1>5, <1>6

LEMMA DelayTyped ==
    ASSUME LimiterAssumption, NEW s \in Scopes, NEW tokens \in Nat, tokens < Second
    PROVE  /\ delayFor(s, tokens) \in 1..Second
           /\ tokens + delayFor(s, tokens) * Limit[s] >= Second
           /\ tokens + (delayFor(s, tokens) - 1) * Limit[s] < Second
<1>1. Second - tokens \in Nat \ {0} /\ Limit[s] \in Nat \ {0} /\ Second \in Nat
  BY DEF LimiterAssumption
<1> DEFINE n == Second - tokens
           l == Limit[s]
           q == (n + l - 1) \div l
<1>2. q \in 1..n /\ q * l >= n /\ (q - 1) * l < n
  BY <1>1, CeilingBounds
<1>3. delayFor(s, tokens) = q
  BY DEF delayFor
<1>4. q \in Int /\ q * l \in Int /\ (q - 1) * l \in Int
  BY <1>1, <1>2
<1> HIDE DEF q
<1> QED BY <1>1, <1>2, <1>3, <1>4

(* A process charges what it finds: the credit loses no more than what is      *)
(* granted and what it sets updatedAt back.                                    *)
LEMMA Charge ==
    ASSUME NEW tokens \in Nat, NEW i \in Int, NEW a \in Nat, NEW l \in Nat, NEW full \in Nat
    PROVE  least(full, tokens + most(0, i + a) * l) - a * l
             <= least(full, tokens + i * l) + most(0, -(i + a)) * l
<1>1. /\ (i + a) * l = i * l + a * l
      /\ (-(i + a)) * l = -(i * l) - a * l
      /\ i * l \in Int /\ a * l \in Nat /\ 0 * l = 0
  BY SMT
<1>2. CASE i + a >= 0
  BY <1>1, <1>2
<1>3. CASE i + a < 0
  <2>1. most(0, i + a) = 0 /\ most(0, -(i + a)) = -(i + a)
    BY <1>3
  <2>2. (-(i + a)) * l >= 0
    BY <1>3, SMT
  <2> QED BY <1>1, <2>1, <2>2
<1> QED BY <1>2, <1>3

-----------------------------------------------------------------------------
(* Type correctness.                                                           *)
LEMMA InitTyped == LimiterAssumption /\ LimiterInit => LimiterTypeOK
BY DEF LimiterAssumption, LimiterInit, LimiterTypeOK, Absent, NoAnswer, EmptyWindow

LEMMA ReadTyped ==
    ASSUME LimiterAssumption, LimiterTypeOK,
           NEW r \in Requests, NEW p \in Processes, readClock(r, p)
    PROVE  LimiterTypeOK'
BY DEF LimiterAssumption, LimiterTypeOK, readClock

LEMMA CheckTyped ==
    ASSUME LimiterAssumption, LimiterTypeOK,
           NEW r \in Requests, NEW s \in Scopes, checkRateLimit(r, s)
    PROVE  LimiterTypeOK'
<1> DEFINE a == reading[r]
           tokens == tokensAt(s, a)
           allowed == tokens >= Second
           left == IF allowed THEN tokens - Second ELSE tokens
           delay == IF allowed THEN 0 ELSE delayFor(s, tokens)
<1>1. /\ a \in -Latency..Spread /\ Spread \in Nat /\ Latency \in Nat /\ Lifetime \in Nat
      /\ Watched \in Scopes
  BY DEF LimiterTypeOK, LimiterAssumption
<1>2. tokens \in Nat /\ Second \in Nat \ {0} /\ setBack(s, a) \in Nat
  <2>1. tokensAt(s, a) \in 0..Full(s) /\ Full(s) \in Nat /\ Second \in Nat \ {0}
        /\ setBack(s, a) \in Nat
    BY <1>1, TokensTyped
  <2> QED BY <2>1
<1>3. left \in Nat
  BY <1>2
<1>4. delay \in Nat
  <2>1. CASE ~allowed
    BY <1>2, <2>1, DelayTyped
  <2> QED BY <2>1
<1>5. /\ bucket' = [bucket EXCEPT ![s] = [tokens |-> left, idle |-> 0, ahead |-> a]]
      /\ answer' = [answer EXCEPT ![r] = [exceeded |-> ~allowed, delay |-> delay]]
      /\ window' = IF s # Watched THEN window
                   ELSE [window EXCEPT !.granted = IF allowed THEN @ + 1 ELSE @,
                                       !.rewound = @ + setBack(s, a)]
      /\ offset' = offset /\ asking' = asking \ {r} /\ reading' = [reading EXCEPT ![r] = 0]
  BY DEF checkRateLimit
<1> HIDE DEF a, tokens, left, delay
<1>6. /\ bucket' \in [Scopes -> [tokens : Nat, idle : 0..Lifetime, ahead : -Latency..Spread]]
      /\ asking' \subseteq Requests /\ reading' \in [Requests -> -Latency..Spread]
  BY <1>1, <1>3, <1>5 DEF LimiterTypeOK
<1>7. answer' \in [Requests -> [exceeded : BOOLEAN, delay : Nat]]
  BY <1>4, <1>5 DEF LimiterTypeOK
<1>8. window' \in [elapsed : 0..WindowLength, granted : Nat, rewound : Nat]
  <2>1. CASE s # Watched
    BY <1>5, <2>1 DEF LimiterTypeOK
  <2>2. CASE s = Watched
    <3>1. /\ window' = [window EXCEPT !.granted = IF allowed THEN @ + 1 ELSE @,
                                      !.rewound = @ + setBack(s, a)]
          /\ window \in [elapsed : 0..WindowLength, granted : Nat, rewound : Nat]
      BY <1>5, <2>2 DEF LimiterTypeOK
    <3>2. /\ window'.elapsed = window.elapsed
          /\ window'.granted = IF allowed THEN window.granted + 1 ELSE window.granted
          /\ window'.rewound = window.rewound + setBack(s, a)
          /\ window' = [elapsed |-> window'.elapsed, granted |-> window'.granted,
                        rewound |-> window'.rewound]
      BY <3>1
    <3>3. window.elapsed \in 0..WindowLength /\ window.granted \in Nat /\ window.rewound \in Nat
      BY <3>1
    <3>4. window'.granted \in Nat /\ window'.rewound \in Nat
      BY <1>2, <3>2, <3>3
    <3> QED BY <3>2, <3>3, <3>4
  <2> QED BY <2>1, <2>2
<1> QED BY <1>5, <1>6, <1>7, <1>8 DEF LimiterTypeOK

LEMMA TickTyped == LimiterAssumption /\ LimiterTypeOK /\ Tick => LimiterTypeOK'
<1> SUFFICES ASSUME LimiterAssumption, LimiterTypeOK, Tick PROVE LimiterTypeOK'
  OBVIOUS
<1>1. bucket' \in [Scopes -> [tokens : Nat, idle : 0..Lifetime, ahead : -Latency..Spread]]
  BY DEF LimiterAssumption, LimiterTypeOK, Tick, Absent
<1>2. reading' \in [Requests -> -Latency..Spread]
  BY DEF LimiterAssumption, LimiterTypeOK, Tick
<1>3. window' \in [elapsed : 0..WindowLength, granted : Nat, rewound : Nat]
  BY DEF LimiterAssumption, LimiterTypeOK, Tick, EmptyWindow
<1> QED BY <1>1, <1>3, <1>2 DEF LimiterTypeOK, Tick

LEMMA ConsumeTyped ==
    ASSUME LimiterTypeOK, NEW r \in Requests, consume(r) PROVE LimiterTypeOK'
BY DEF LimiterTypeOK, consume, NoAnswer

LEMMA OpenTyped == LimiterAssumption /\ LimiterTypeOK /\ OpenWindow => LimiterTypeOK'
BY DEF LimiterAssumption, LimiterTypeOK, OpenWindow, EmptyWindow

-----------------------------------------------------------------------------
(* Conservation.                                                               *)
LEMMA CreditTyped ==
    ASSUME LimiterTypeOK, LimiterAssumption
    PROVE  /\ credit \in Int /\ credit <= Full(Watched)
           /\ credit + (Spread + Latency) * Limit[Watched] >= 0
           /\ Full(Watched) \in Nat /\ Limit[Watched] \in Nat \ {0}
           /\ window.granted \in Nat /\ window.rewound \in Nat /\ window.elapsed \in Nat
<1> DEFINE l == Limit[Watched]
           apart == Spread + Latency
           i == bucket[Watched].idle - bucket[Watched].ahead - Latency
<1>1. /\ Full(Watched) \in Nat /\ l \in Nat \ {0} /\ apart \in Nat /\ Lifetime \in Nat
      /\ bucket[Watched].tokens \in Nat /\ bucket[Watched].idle \in 0..Lifetime
      /\ bucket[Watched].ahead \in -Latency..Spread /\ Spread \in Nat /\ Latency \in Nat
  <2>1. Watched \in Scopes /\ 0 \in Int /\ Spread \in Nat /\ Latency \in Nat /\ Lifetime \in Nat
    BY DEF LimiterAssumption
  <2> QED BY <2>1, TokensTyped
<1>2. i \in Int /\ i >= -apart
  BY <1>1
<1>3. i * l \in Int /\ apart * l \in Nat /\ i * l + apart * l >= 0
  <2> HIDE DEF i, l, apart
  <2>1. (i + apart) * l = i * l + apart * l
    BY <1>1, <1>2, SMT
  <2>2. (i + apart) * l >= 0
    BY <1>1, <1>2, SMT
  <2>3. i * l \in Int /\ apart * l \in Nat
    BY <1>1, <1>2, SMT
  <2> QED BY <2>1, <2>2, <2>3
<1>4. credit = IF present(Watched) THEN least(Full(Watched), bucket[Watched].tokens + i * l)
               ELSE Full(Watched)
  BY DEF credit
<1>5. window.granted \in Nat /\ window.rewound \in Nat /\ window.elapsed \in Nat
  BY DEF LimiterTypeOK, LimiterAssumption
<1>6. credit \in Int /\ credit <= Full(Watched) /\ credit + apart * l >= 0
  <2> HIDE DEF i, apart, l
  <2> QED BY <1>1, <1>3, <1>4
<1> QED BY <1>1, <1>5, <1>6

LEMMA InitConserved == LimiterAssumption /\ LimiterInit => Conserved
<1> SUFFICES ASSUME LimiterAssumption, LimiterInit PROVE Conserved
  OBVIOUS
<1>1. Full(Watched) \in Nat /\ Limit[Watched] \in Nat /\ Second \in Nat /\ Watched \in Scopes
  BY DEF LimiterAssumption, Full
<1>2. credit = Full(Watched)
  BY <1>1 DEF credit, present, LimiterInit, Absent, LimiterAssumption
<1> QED BY <1>1, <1>2 DEF Conserved, LimiterInit, EmptyWindow

LEMMA CheckConserved ==
    ASSUME LimiterAssumption, LimiterInv,
           NEW r \in Requests, checkRateLimit(r, Watched)
    PROVE  Conserved'
<1> DEFINE x == reading[r]
           a == x + Latency
           l == Limit[Watched]
           full == Full(Watched)
           b == bucket[Watched]
           tokens == tokensAt(Watched, x)
           allowed == tokens >= Second
           left == IF allowed THEN tokens - Second ELSE tokens
           back == setBack(Watched, x)
<1>1. /\ Watched \in Scopes /\ x \in -Latency..Spread /\ Spread \in Nat /\ Latency \in Nat
      /\ Lifetime \in Nat \ {0} /\ LimiterTypeOK
  BY DEF LimiterTypeOK, LimiterAssumption, LimiterInv
<1>2. /\ full \in Nat /\ l \in Nat \ {0} /\ Second \in Nat \ {0} /\ a \in Nat
      /\ b.tokens \in Nat /\ b.idle - b.ahead \in Int /\ x \in Int /\ Latency \in Nat
      /\ sinceUpdate(Watched, x) = b.idle - b.ahead + x
      /\ tokens \in 0..full /\ back \in Nat
  BY <1>1, TokensTyped
<1>3. tokens - a * l <= credit + back * l
  <2>1. CASE present(Watched)
    <3> DEFINE i == b.idle - b.ahead - Latency
    <3>1. i + a = b.idle - b.ahead + x
      BY <1>2
    <3>2. /\ tokens = least(full, b.tokens + most(0, i + a) * l)
          /\ back = most(0, -(i + a))
          /\ credit = least(full, b.tokens + i * l)
      BY <1>2, <2>1, <3>1 DEF tokensAt, setBack, credit
    <3>3. b.tokens \in Nat /\ i \in Int /\ a \in Nat /\ l \in Nat /\ full \in Nat
      BY <1>2
    <3> HIDE DEF x, a, l, full, b, tokens, back, i
    <3>4. least(full, b.tokens + most(0, i + a) * l) - a * l
            <= least(full, b.tokens + i * l) + most(0, -(i + a)) * l
      BY ONLY <3>3, Charge
    <3> QED BY <3>2, <3>4
  <2>2. CASE ~present(Watched)
    <3>1. tokens = full /\ back = 0 /\ credit = full
      BY <2>2 DEF tokensAt, setBack, credit
    <3>2. a * l \in Nat /\ 0 * l = 0
      BY <1>2, SMT
    <3> QED BY <1>2, <3>1, <3>2
  <2> QED BY <2>1, <2>2
<1>4. /\ bucket' = [bucket EXCEPT ![Watched] = [tokens |-> left, idle |-> 0, ahead |-> x]]
      /\ window' = [window EXCEPT !.granted = IF allowed THEN @ + 1 ELSE @,
                                  !.rewound = @ + back]
  BY DEF checkRateLimit
<1>5. credit' <= left - a * l /\ credit' \in Int
  <2>1. bucket'[Watched] = [tokens |-> left, idle |-> 0, ahead |-> x]
    BY <1>1, <1>4 DEF LimiterTypeOK
  <2>2. present(Watched)'
    BY <1>1, <2>1 DEF present
  <2>3. credit' = least(full, left + (0 - a) * l)
    <3>1. credit' = least(full, left + (0 - x - Latency) * l)
      BY <2>1, <2>2 DEF credit, Full
    <3>2. 0 - x - Latency = 0 - a
      BY <1>2
    <3> QED BY <3>1, <3>2
  <2>4. (0 - a) * l = -(a * l) /\ a * l \in Int /\ left \in Int
    BY <1>2, SMT
  <2> QED BY <1>2, <2>3, <2>4
<1>6. /\ window'.granted = IF allowed THEN window.granted + 1 ELSE window.granted
      /\ window'.rewound = window.rewound + back
      /\ window'.elapsed = window.elapsed
  BY <1>1, <1>4 DEF LimiterTypeOK
<1>7. /\ credit \in Int /\ window.granted \in Nat /\ window.rewound \in Nat
      /\ window.elapsed \in Nat
  BY <1>1, CreditTyped
<1>8. window.granted * Second + credit
        <= full + window.elapsed * l + window.rewound * l
  BY DEF LimiterInv, Conserved
<1> HIDE DEF x, a, l, full, b, tokens, back
<1>9. /\ (window.granted + 1) * Second = window.granted * Second + Second
      /\ (window.rewound + back) * l = window.rewound * l + back * l
      /\ window.granted * Second \in Int /\ window.rewound * l \in Int /\ back * l \in Int
      /\ window.elapsed * l \in Int /\ a * l \in Int
  BY <1>2, <1>7, SMT
<1>10. window'.granted * Second + credit'
         <= full + window'.elapsed * l + window'.rewound * l
  BY <1>2, <1>3, <1>5, <1>6, <1>7, <1>8, <1>9
<1> QED BY <1>10 DEF Conserved, Full, full, l

LEMMA OtherConserved ==
    ASSUME LimiterAssumption, LimiterInv, NEW r \in Requests, NEW s \in Scopes,
           checkRateLimit(r, s), s # Watched
    PROVE  Conserved'
<1>1. window' = window /\ bucket'[Watched] = bucket[Watched]
  BY DEF checkRateLimit, LimiterInv, LimiterTypeOK, LimiterAssumption
<1>2. credit' = credit
  BY <1>1 DEF credit, present, Full
<1> QED BY <1>1, <1>2 DEF LimiterInv, Conserved, Full

LEMMA TickConserved == LimiterAssumption /\ LimiterInv /\ Tick => Conserved'
<1> SUFFICES ASSUME LimiterAssumption, LimiterInv, Tick PROVE Conserved'
  OBVIOUS
<1> DEFINE l == Limit[Watched]
           full == Full(Watched)
           b == bucket[Watched]
           i == b.idle - b.ahead - Latency
<1>1. LimiterTypeOK /\ Watched \in Scopes /\ 0 \in Int
  BY DEF LimiterInv, LimiterAssumption
<1>2. /\ full \in Nat /\ l \in Nat \ {0} /\ Second \in Nat \ {0}
      /\ b.tokens \in Nat /\ b.idle \in 0..Lifetime /\ b.ahead \in -Latency..Spread
  BY <1>1, TokensTyped
<1>3. /\ Spread \in Nat /\ Latency \in Nat /\ Lifetime \in Nat
      /\ Lifetime >= Second + Spread + Latency
  BY DEF LimiterAssumption
<1>4. /\ credit \in Int /\ credit <= full
      /\ window.granted \in Nat /\ window.rewound \in Nat /\ window.elapsed \in Nat
  BY <1>1, CreditTyped
<1>5. credit = IF present(Watched) THEN least(full, b.tokens + i * l) ELSE full
  BY DEF credit
<1>6. /\ i \in Int /\ (i + 1) * l = i * l + l
      /\ (Second - 1) * l = full - l /\ i * l \in Int
  <2>1. i \in Int /\ full = l * Second
    BY <1>2, <1>3 DEF Full
  <2> HIDE DEF i, l, full
  <2> QED BY <1>2, <2>1, SMT
<1>7. /\ credit' \in Int /\ credit' <= full /\ credit' <= credit + l
  <2>1. CASE b.idle + 1 < Lifetime
    <3>1. bucket'[Watched] = [b EXCEPT !.idle = @ + 1]
      BY <1>1, <2>1 DEF Tick
    <3>2. /\ bucket'[Watched].idle = b.idle + 1 /\ bucket'[Watched].ahead = b.ahead
          /\ bucket'[Watched].tokens = b.tokens
      BY <1>1, <3>1 DEF LimiterTypeOK
    <3>3. present(Watched)' /\ present(Watched)
      BY <1>2, <1>3, <2>1, <3>2 DEF present
    <3>4. credit' = least(full, bucket'[Watched].tokens
                             + (bucket'[Watched].idle - bucket'[Watched].ahead - Latency) * l)
      BY <3>3 DEF credit, Full
    <3>5. bucket'[Watched].idle - bucket'[Watched].ahead - Latency = i + 1
      BY <1>2, <1>3, <3>2
    <3>6. credit' = least(full, b.tokens + (i * l + l))
      BY <1>6, <3>2, <3>4, <3>5
    <3> HIDE DEF b, i, l, full
    <3> QED BY <1>2, <1>5, <1>6, <3>3, <3>6
  <2>2. CASE b.idle + 1 >= Lifetime
    <3>1. bucket'[Watched] = Absent
      BY <1>1, <1>2, <1>3, <2>2 DEF Tick
    <3>2. credit' = full
      BY <1>3, <3>1 DEF credit, present, Absent, Full
    <3>3. credit >= full - l
      <4>1. CASE present(Watched)
        <5>1. i >= Second - 1
          BY <1>2, <1>3, <2>2
        <5>2. i * l >= (Second - 1) * l
          <6> HIDE DEF i, l
          <6> QED BY <1>2, <1>6, <5>1, Monotone
        <5> HIDE DEF i, l, full, b
        <5> QED BY <1>2, <1>5, <1>6, <4>1, <5>2
      <4>2. CASE ~present(Watched)
        BY <1>2, <1>5, <4>2
      <4> QED BY <4>1, <4>2
    <3> HIDE DEF l, full
    <3> QED BY <1>2, <1>4, <3>2, <3>3
  <2> QED BY <1>2, <1>3, <2>1, <2>2
<1>8. \/ /\ window'.elapsed = window.elapsed + 1 /\ window'.granted = window.granted
         /\ window'.rewound = window.rewound
      \/ window'.elapsed = 0 /\ window'.granted = 0 /\ window'.rewound = 0
  BY <1>1 DEF Tick, LimiterTypeOK, EmptyWindow
<1>9. window.granted * Second + credit <= full + window.elapsed * l + window.rewound * l
  BY DEF LimiterInv, Conserved
<1> HIDE DEF i, l, full, b
<1>10. /\ (window.elapsed + 1) * l = window.elapsed * l + l
       /\ window.granted * Second \in Int /\ window.rewound * l \in Int
       /\ window.elapsed * l \in Int /\ 0 * l = 0 /\ 0 * Second = 0
  BY <1>2, <1>4, SMT
<1>11. window'.granted * Second + credit' <= full + window'.elapsed * l + window'.rewound * l
  <2>1. CASE /\ window'.elapsed = window.elapsed + 1 /\ window'.granted = window.granted
             /\ window'.rewound = window.rewound
    <3>1. /\ window'.granted * Second = window.granted * Second
          /\ window'.elapsed * l = window.elapsed * l + l
          /\ window'.rewound * l = window.rewound * l
      BY <1>10, <2>1
    <3> QED BY <1>2, <1>4, <1>7, <1>9, <1>10, <3>1
  <2>2. CASE window'.elapsed = 0 /\ window'.granted = 0 /\ window'.rewound = 0
    <3>1. window'.granted * Second = 0 /\ window'.elapsed * l = 0 /\ window'.rewound * l = 0
      BY <1>10, <2>2
    <3> QED BY <1>2, <1>4, <1>7, <3>1
  <2> QED BY <1>8, <2>1, <2>2
<1> QED BY <1>11 DEF Conserved, Full, full, l

LEMMA OpenConserved == LimiterAssumption /\ LimiterInv /\ OpenWindow => Conserved'
<1> SUFFICES ASSUME LimiterAssumption, LimiterInv, OpenWindow PROVE Conserved'
  OBVIOUS
<1>1. /\ credit \in Int /\ credit <= Full(Watched) /\ Full(Watched) \in Nat
      /\ Limit[Watched] \in Nat /\ Second \in Nat
  BY CreditTyped DEF LimiterInv, LimiterAssumption
<1>2. credit' = credit /\ Full(Watched)' = Full(Watched)
  BY DEF OpenWindow, credit, present, Full
<1>3. window'.granted = 0 /\ window'.elapsed = 0 /\ window'.rewound = 0
  BY DEF OpenWindow, EmptyWindow
<1> QED BY <1>1, <1>2, <1>3 DEF Conserved

LEMMA ReadConserved ==
    ASSUME LimiterInv, NEW r \in Requests, NEW p \in Processes, readClock(r, p)
    PROVE  Conserved'
BY DEF LimiterInv, Conserved, readClock, credit, present, Full

LEMMA ConsumeConserved == ASSUME LimiterInv, NEW r \in Requests, consume(r) PROVE Conserved'
BY DEF LimiterInv, Conserved, consume, credit, present, Full

LEMMA LimiterStep == LimiterAssumption /\ LimiterInv /\ [LimiterNext]_limiterVars => LimiterInv'
<1> SUFFICES ASSUME LimiterAssumption, LimiterInv, [LimiterNext]_limiterVars PROVE LimiterInv'
  OBVIOUS
<1>1. LimiterTypeOK
  BY DEF LimiterInv
<1>2. CASE Tick
  BY <1>1, <1>2, TickTyped, TickConserved DEF LimiterInv
<1>3. CASE OpenWindow
  BY <1>1, <1>3, OpenTyped, OpenConserved DEF LimiterInv
<1>4. ASSUME NEW r \in Requests, consume(r) PROVE LimiterInv'
  BY <1>1, <1>4, ConsumeTyped, ConsumeConserved DEF LimiterInv
<1>5. ASSUME NEW r \in Requests, NEW p \in Processes, readClock(r, p) PROVE LimiterInv'
  BY <1>1, <1>5, ReadTyped, ReadConserved DEF LimiterInv
<1>6. ASSUME NEW r \in Requests, NEW s \in Scopes, checkRateLimit(r, s)
      PROVE  LimiterInv'
  <2>1. LimiterTypeOK'
    BY <1>1, <1>6, CheckTyped
  <2>2. CASE s = Watched
    BY <1>6, <2>1, <2>2, CheckConserved DEF LimiterInv
  <2>3. CASE s # Watched
    BY <1>6, <2>1, <2>3, OtherConserved DEF LimiterInv
  <2> QED BY <2>2, <2>3
<1>7. CASE UNCHANGED limiterVars
  BY <1>7 DEF limiterVars, LimiterInv, LimiterTypeOK, Conserved, credit, present, Full
<1> QED BY <1>2, <1>3, <1>4, <1>6, <1>7, <1>5 DEF LimiterNext

LEMMA ConservedBounds == LimiterAssumption /\ LimiterInv => WindowBound
<1> SUFFICES ASSUME LimiterAssumption, LimiterInv PROVE WindowBound
  OBVIOUS
<1> DEFINE l == Limit[Watched]
           apart == Spread + Latency
<1>1. /\ credit \in Int /\ credit + apart * l >= 0 /\ l \in Nat
      /\ window.granted \in Nat /\ window.rewound \in Nat /\ window.elapsed \in Nat
      /\ Second \in Nat /\ Spread \in Nat /\ Latency \in Nat /\ apart \in Nat
  BY CreditTyped DEF LimiterInv, LimiterAssumption
<1>2. window.granted * Second + credit
        <= l * Second + window.elapsed * l + window.rewound * l
  BY DEF LimiterInv, Conserved, Full
<1> HIDE DEF l, apart
<1>3. l * (Second + window.elapsed + window.rewound + apart)
        = l * Second + window.elapsed * l + window.rewound * l + apart * l
  BY <1>1, SMT
<1>4. /\ l * Second \in Int /\ window.elapsed * l \in Int /\ window.rewound * l \in Int
      /\ apart * l \in Int /\ window.granted * Second \in Int
  BY <1>1, SMT
<1>5. window.granted * Second <= l * (Second + window.elapsed + window.rewound + apart)
  BY <1>1, <1>2, <1>3, <1>4
<1>6. Second + window.elapsed + window.rewound + apart
        = Second + window.elapsed + window.rewound + Spread + Latency
  BY <1>1 DEF apart
<1> QED BY <1>5, <1>6 DEF WindowBound, l

(* The adapter never grants more, in any window, than a burst and the rate     *)
(* allow: for every limit, clock difference, latency and number of dispatchers.*)
THEOREM LimiterBounded == ASSUME LimiterAssumption PROVE LimiterSpec => []WindowBound
<1>1. LimiterInit => LimiterInv
  BY InitTyped, InitConserved DEF LimiterInv
<1>2. LimiterInv /\ [LimiterNext]_limiterVars => LimiterInv'
  BY LimiterStep
<1>3. LimiterInv => WindowBound
  BY ConservedBounds
<1> QED BY <1>1, <1>2, <1>3, PTL DEF LimiterSpec

-----------------------------------------------------------------------------
(* With one clock nobody reads a time that is yet to come.                     *)
Agree ==
    OneClock => /\ \A s \in Scopes : bucket[s].ahead <= 0
                /\ \A r \in Requests : reading[r] <= 0

OneClockInv == LimiterTypeOK /\ Agree

LEMMA AgreeStep == LimiterAssumption /\ OneClockInv /\ [LimiterNext]_limiterVars => OneClockInv'
<1> SUFFICES ASSUME LimiterAssumption, OneClockInv, [LimiterNext]_limiterVars PROVE OneClockInv'
  OBVIOUS
<1>1. LimiterTypeOK /\ Agree
  BY DEF OneClockInv
<1>2. CASE Tick
  <2>1. LimiterTypeOK' /\ (OneClock' <=> OneClock)
    BY <1>1, <1>2, TickTyped DEF Tick, OneClock
  <2>2. \A s \in Scopes : bucket'[s].ahead \in {bucket[s].ahead, 0}
    BY <1>1, <1>2 DEF Tick, Absent, LimiterTypeOK
  <2>3. \A r \in Requests : reading'[r] <= reading[r] /\ reading'[r] \in Int /\ reading[r] \in Int
    BY <1>1, <1>2 DEF Tick, LimiterTypeOK, LimiterAssumption
  <2>4. OneClock => \A r \in Requests : reading'[r] <= 0
    BY <1>1, <2>3 DEF Agree
  <2> QED BY <1>1, <2>1, <2>2, <2>4 DEF Agree, OneClockInv
<1>3. CASE OpenWindow
  BY <1>1, <1>3, OpenTyped DEF OneClockInv, Agree, OneClock, OpenWindow
<1>4. ASSUME NEW r \in Requests, consume(r) PROVE OneClockInv'
  BY <1>1, <1>4, ConsumeTyped DEF OneClockInv, Agree, OneClock, consume
<1>5. ASSUME NEW r \in Requests, NEW p \in Processes, readClock(r, p) PROVE OneClockInv'
  <2>1. LimiterTypeOK' /\ (OneClock' <=> OneClock)
    BY <1>1, <1>5, ReadTyped DEF readClock, OneClock
  <2>2. OneClock => \A q \in Requests : reading'[q] \in {reading[q], 0}
    BY <1>1, <1>5 DEF readClock, OneClock, LimiterTypeOK
  <2> QED BY <1>1, <1>5, <2>1, <2>2 DEF Agree, OneClockInv, readClock
<1>6. ASSUME NEW r \in Requests, NEW s \in Scopes, checkRateLimit(r, s) PROVE OneClockInv'
  <2>1. LimiterTypeOK'
    BY <1>1, <1>6, CheckTyped
  <2>2. OneClock' <=> OneClock
    BY <1>6 DEF checkRateLimit, OneClock
  <2>3. \A z \in Scopes : bucket'[z].ahead = IF z = s THEN reading[r] ELSE bucket[z].ahead
    BY <1>1, <1>6 DEF checkRateLimit, LimiterTypeOK
  <2>4. \A q \in Requests : reading'[q] \in {reading[q], 0}
    BY <1>1, <1>6 DEF checkRateLimit, LimiterTypeOK
  <2> QED BY <1>1, <2>1, <2>2, <2>3, <2>4 DEF Agree, OneClockInv
<1>7. CASE UNCHANGED limiterVars
  BY <1>1, <1>7 DEF limiterVars, OneClockInv, LimiterTypeOK, Agree, OneClock
<1> QED BY <1>2, <1>3, <1>4, <1>5, <1>6, <1>7 DEF LimiterNext

(* What a script finds once the refill is complete, whatever was left.         *)
LEMMA FullAgain ==
    ASSUME LimiterAssumption, LimiterTypeOK, NEW s \in Scopes, NEW a \in Int,
           present(s) => sinceUpdate(s, a) >= Second
    PROVE  tokensAt(s, a) = Full(s)
<1> DEFINE l == Limit[s]
           full == Full(s)
           since == sinceUpdate(s, a)
           t == bucket[s].tokens
<1>1. full \in Nat /\ l \in Nat \ {0} /\ Second \in Nat \ {0} /\ since \in Int /\ t \in Nat
  BY TokensTyped
<1>2. full = Second * l
  BY <1>1 DEF Full
<1>3. tokensAt(s, a) = IF present(s) THEN least(full, t + most(0, since) * l) ELSE full
  BY DEF tokensAt
<1>4. present(s) => since >= Second
  OBVIOUS
<1> HIDE DEF l, full, since, t
<1>5. ASSUME since >= Second PROVE most(0, since) * l >= full
  <2>1. most(0, since) = since /\ Second <= since
    BY <1>1, <1>5
  <2>2. Second * l <= since * l
    BY <1>1, <2>1, Monotone
  <2> QED BY <1>2, <2>1, <2>2
<1>6. since >= Second => least(full, t + most(0, since) * l) = full
  <2> SUFFICES ASSUME since >= Second PROVE least(full, t + most(0, since) * l) = full
    OBVIOUS
  <2> DEFINE gain == most(0, since) * l
  <2>1. gain >= full /\ gain \in Int
    <3>1. most(0, since) \in Int /\ l \in Int
      BY <1>1
    <3>2. most(0, since) * l \in Int
      BY <3>1
    <3> QED BY <1>5, <3>2
  <2> HIDE DEF gain
  <2>2. least(full, t + gain) = full
    BY <1>1, <2>1
  <2> QED BY <2>2 DEF gain
<1> QED BY <1>3, <1>4, <1>6 DEF full

(* The bucket as the ideal one sees it.                                        *)
idealLevel(s) == IF inSight(s) THEN bucket[s].tokens ELSE Full(s)
idealLag(s) == IF inSight(s) THEN sinceUpdate(s, 0) ELSE Horizon

LEMMA IdealTyped ==
    ASSUME LimiterAssumption, OneClockInv, OneClock, NEW s \in Scopes
    PROVE  /\ Second \in Nat \ {0} /\ Latency \in Nat /\ Lifetime \in Nat \ {0} /\ Horizon \in Nat
           /\ Limit[s] \in Nat \ {0} /\ Full(s) \in Nat
           /\ bucket[s].tokens \in Nat /\ bucket[s].idle \in 0..Lifetime
           /\ bucket[s].ahead \in -Latency..0
           /\ sinceUpdate(s, 0) = bucket[s].idle - bucket[s].ahead
           /\ Lifetime >= Horizon
           /\ idealLevel(s) \in Nat /\ idealLag(s) \in 0..Horizon
<1>1. LimiterTypeOK /\ bucket[s].ahead <= 0 /\ 0 \in Int
  BY DEF OneClockInv, Agree
<1>2. /\ Second \in Nat \ {0} /\ Latency \in Nat /\ Lifetime \in Nat /\ Spread \in Nat
      /\ Lifetime >= Second + Spread + Latency
  BY DEF LimiterAssumption
<1>3. /\ Limit[s] \in Nat \ {0} /\ Full(s) \in Nat
      /\ bucket[s].tokens \in Nat /\ bucket[s].idle \in 0..Lifetime
      /\ bucket[s].ahead \in -Latency..Spread
      /\ sinceUpdate(s, 0) = bucket[s].idle - bucket[s].ahead + 0
  BY <1>1, TokensTyped
<1>4. Horizon = Second + Latency
  BY DEF Horizon
<1>5. /\ bucket[s].ahead \in -Latency..0 /\ sinceUpdate(s, 0) = bucket[s].idle - bucket[s].ahead
      /\ Horizon \in Nat /\ Lifetime >= Horizon /\ Lifetime \in Nat \ {0}
  BY <1>1, <1>2, <1>3, <1>4
<1>6. idealLevel(s) \in Nat
  BY <1>3 DEF idealLevel
<1>7. idealLag(s) \in 0..Horizon
  BY <1>3, <1>5 DEF idealLag, inSight
<1> QED BY <1>2, <1>3, <1>5, <1>6, <1>7

(* A tick is a tick of the ideal bucket, which is full when the hash expires.  *)
LEMMA LevelTick ==
    ASSUME LimiterAssumption, OneClockInv, OneClock, Tick, NEW s \in Scopes
    PROVE  /\ idealLevel(s)' = IF idealLag(s) + 1 < Horizon THEN idealLevel(s) ELSE Full(s)
           /\ idealLag(s)' = IF idealLag(s) + 1 < Horizon THEN idealLag(s) + 1 ELSE Horizon
<1> DEFINE b == bucket[s]
<1>1. /\ Lifetime \in Nat \ {0} /\ Horizon \in Nat /\ Lifetime >= Horizon
      /\ b.idle \in 0..Lifetime /\ b.ahead \in -Latency..0 /\ Latency \in Nat
      /\ sinceUpdate(s, 0) = b.idle - b.ahead
  BY IdealTyped
<1>2. LimiterTypeOK /\ Full(s)' = Full(s) /\ Horizon' = Horizon
  BY DEF OneClockInv, Full, Horizon
<1>3. CASE b.idle + 1 < Lifetime
  <2>1. bucket'[s] = [b EXCEPT !.idle = @ + 1]
    BY <1>3 DEF Tick
  <2>2. /\ bucket'[s].idle = b.idle + 1 /\ bucket'[s].ahead = b.ahead
        /\ bucket'[s].tokens = b.tokens
    BY <1>2, <2>1 DEF LimiterTypeOK
  <2>3. present(s)' /\ present(s) /\ sinceUpdate(s, 0)' = sinceUpdate(s, 0) + 1
    BY <1>1, <1>3, <2>2 DEF present, sinceUpdate
  <2>4. inSight(s)' <=> sinceUpdate(s, 0) + 1 < Horizon
    BY <1>2, <2>3 DEF inSight
  <2>5. inSight(s) <=> sinceUpdate(s, 0) < Horizon
    BY <2>3 DEF inSight
  <2> HIDE DEF b
  <2> QED BY <1>1, <1>2, <2>2, <2>3, <2>4, <2>5 DEF idealLevel, idealLag, b
<1>4. CASE b.idle + 1 >= Lifetime
  <2>1. bucket'[s] = Absent
    BY <1>1, <1>4 DEF Tick
  <2>2. ~inSight(s)'
    BY <1>1, <2>1 DEF inSight, present, Absent
  <2>3. idealLag(s) + 1 >= Horizon
    BY <1>1, <1>4 DEF idealLag
  <2>4. idealLag(s) \in Int
    BY IdealTyped
  <2> QED BY <1>1, <1>2, <2>2, <2>3, <2>4 DEF idealLevel, idealLag
<1> QED BY <1>1, <1>3, <1>4

(* What a request finds, and what it does to the bucket.                       *)
LEMMA LevelCheck ==
    ASSUME LimiterAssumption, OneClockInv, OneClock,
           NEW r \in Requests, NEW s \in Scopes, checkRateLimit(r, s), setBack(s, reading[r]) = 0
    PROVE  /\ -reading[r] \in 0..Latency /\ -reading[r] <= idealLag(s)
           /\ tokensAt(s, reading[r])
                = least(Full(s), idealLevel(s) + (idealLag(s) - (-reading[r])) * Limit[s])
           /\ idealLevel(s)' = IF tokensAt(s, reading[r]) >= Second
                               THEN tokensAt(s, reading[r]) - Second ELSE tokensAt(s, reading[r])
           /\ idealLag(s)' = -reading[r]
           /\ \A z \in Scopes : z # s => idealLevel(z)' = idealLevel(z) /\ idealLag(z)' = idealLag(z)
<1> DEFINE a == reading[r]
           tokens == tokensAt(s, a)
           left == IF tokens >= Second THEN tokens - Second ELSE tokens
           l == Limit[s]
           full == Full(s)
<1>1. LimiterTypeOK /\ a \in -Latency..0
  BY DEF OneClockInv, OneClock, Agree, LimiterTypeOK
<1>2. /\ Second \in Nat \ {0} /\ Latency \in Nat /\ Lifetime \in Nat \ {0} /\ Horizon \in Nat
      /\ l \in Nat \ {0} /\ full \in Nat /\ bucket[s].tokens \in Nat
      /\ idealLevel(s) \in Nat /\ idealLag(s) \in 0..Horizon
      /\ sinceUpdate(s, 0) = bucket[s].idle - bucket[s].ahead
      /\ Horizon = Second + Latency
  BY IdealTyped DEF Horizon
<1>3. /\ tokens \in 0..full /\ sinceUpdate(s, a) = bucket[s].idle - bucket[s].ahead + a
      /\ bucket[s].idle \in Int /\ bucket[s].ahead \in Int /\ a \in Int
  <2>1. a \in Int
    BY <1>1, <1>2
  <2>2. tokensAt(s, a) \in 0..Full(s) /\ sinceUpdate(s, a) = bucket[s].idle - bucket[s].ahead + a
        /\ bucket[s].idle \in 0..Lifetime /\ bucket[s].ahead \in -Latency..Spread
    BY <1>1, <2>1, TokensTyped
  <2> QED BY <1>2, <2>1, <2>2 DEF LimiterAssumption
<1>4. sinceUpdate(s, a) = sinceUpdate(s, 0) + a
  BY <1>2, <1>3
<1>5. present(s) => sinceUpdate(s, a) >= 0
  BY <1>3 DEF setBack
<1>6. -a \in 0..Latency /\ -a <= idealLag(s)
  <2>1. -a \in 0..Latency
    BY <1>1, <1>2
  <2>2. CASE inSight(s)
    BY <1>2, <1>3, <1>4, <1>5, <2>1, <2>2 DEF idealLag, inSight
  <2>3. CASE ~inSight(s)
    BY <1>2, <2>1, <2>3 DEF idealLag
  <2> QED BY <2>1, <2>2, <2>3
<1>7. tokens = least(full, idealLevel(s) + (idealLag(s) - (-a)) * l)
  <2>1. CASE inSight(s)
    <3>1. idealLevel(s) = bucket[s].tokens /\ idealLag(s) - (-a) = most(0, sinceUpdate(s, a))
      BY <1>2, <1>3, <1>4, <1>5, <2>1 DEF idealLevel, idealLag, inSight
    <3> QED BY <2>1, <3>1 DEF tokensAt, inSight
  <2>2. CASE ~inSight(s)
    <3>1. present(s) => sinceUpdate(s, a) >= Second
      BY <1>1, <1>2, <1>3, <1>4, <2>2 DEF inSight
    <3>2. tokens = full
      BY <1>1, <1>3, <3>1, FullAgain
    <3>3. (idealLag(s) - (-a)) * l \in Nat
      <4> DEFINE n == idealLag(s) - (-a)
      <4>1. n \in Nat
        BY <1>2, <1>3, <1>6
      <4> HIDE DEF n, l
      <4>2. n * l \in Nat
        BY <1>2, <4>1, SMT
      <4> QED BY <4>2 DEF n
    <3>4. idealLevel(s) = full
      BY <2>2 DEF idealLevel
    <3> DEFINE gain == (idealLag(s) - (-a)) * l
    <3> HIDE DEF gain, full, tokens
    <3>5. tokens = least(full, full + gain)
      BY <1>2, <3>2, <3>3 DEF gain
    <3> QED BY <3>4, <3>5 DEF gain
  <2> QED BY <2>1, <2>2
<1>8. bucket' = [bucket EXCEPT ![s] = [tokens |-> left, idle |-> 0, ahead |-> a]]
  BY DEF checkRateLimit
<1>9. bucket'[s] = [tokens |-> left, idle |-> 0, ahead |-> a]
  BY <1>1, <1>8 DEF LimiterTypeOK
<1>10. idealLevel(s)' = left /\ idealLag(s)' = -a
  <2> HIDE DEF left
  <2>1. present(s)' /\ sinceUpdate(s, 0)' = -a
    <3>1. bucket'[s].idle = 0 /\ bucket'[s].ahead = a
      BY <1>9
    <3>2. 0 < Lifetime /\ 0 - a + 0 = -a
      BY <1>2, <1>3
    <3> QED BY <3>1, <3>2 DEF present, sinceUpdate
  <2>2. -a < Horizon
    BY <1>2, <1>6
  <2>3. inSight(s)'
    BY <2>1, <2>2 DEF inSight, Horizon
  <2>4. bucket'[s].tokens = left
    BY <1>9
  <2> QED BY <2>1, <2>3, <2>4 DEF idealLevel, idealLag
<1>11. \A z \in Scopes : z # s => bucket'[z] = bucket[z]
  BY <1>1, <1>8 DEF LimiterTypeOK
<1>12. \A z \in Scopes : z # s => idealLevel(z)' = idealLevel(z) /\ idealLag(z)' = idealLag(z)
  BY <1>11 DEF idealLevel, idealLag, inSight, present, sinceUpdate, Full, Horizon
<1> HIDE DEF tokens
<1> QED BY <1>6, <1>7, <1>10, <1>12 DEF tokens

LEMMA IdealInit == LimiterAssumption /\ LimiterInit => Ideal!Init
<1> SUFFICES ASSUME LimiterAssumption, LimiterInit PROVE Ideal!Init
  OBVIOUS
<1>1. ASSUME NEW s \in Scopes PROVE ~inSight(s)
  <2>1. bucket[s].idle = Lifetime /\ Lifetime \in Nat
    BY DEF LimiterInit, LimiterAssumption, Absent
  <2> QED BY <2>1 DEF inSight, present
<1> QED BY <1>1 DEF LimiterInit, Ideal!Init, Ideal!Full, Ideal!Horizon, Ideal!NoAnswer,
                    NoAnswer, Full, Horizon

LEMMA IdealServe ==
    ASSUME LimiterAssumption, OneClockInv, OneClock,
           NEW r \in Requests, NEW s \in Scopes, checkRateLimit(r, s), setBack(s, reading[r]) = 0
    PROVE  Ideal!Serve(r, s)
<1> DEFINE level == [z \in Scopes |-> IF inSight(z) THEN bucket[z].tokens ELSE Full(z)]
           lag == [z \in Scopes |-> IF inSight(z) THEN sinceUpdate(z, 0) ELSE Horizon]
           tokens == tokensAt(s, reading[r])
           ago == -reading[r]
<1>1. /\ ago \in 0..Latency /\ ago <= idealLag(s)
      /\ tokens = least(Full(s), idealLevel(s) + (idealLag(s) - ago) * Limit[s])
      /\ idealLevel(s)' = IF tokens >= Second THEN tokens - Second ELSE tokens
      /\ idealLag(s)' = ago
      /\ \A z \in Scopes : z # s => idealLevel(z)' = idealLevel(z) /\ idealLag(z)' = idealLag(z)
  BY LevelCheck
<1>2. tokens \in Nat /\ Second \in Nat /\ Full(s) \in Nat
  <2>1. reading[r] \in Int /\ LimiterTypeOK
    BY DEF LimiterAssumption, OneClockInv, LimiterTypeOK
  <2>2. tokensAt(s, reading[r]) \in 0..Full(s) /\ Full(s) \in Nat /\ Second \in Nat \ {0}
    BY <2>1, TokensTyped
  <2> QED BY <2>2
<1>3. answer' = [answer EXCEPT ![r] =
                    [exceeded |-> ~(tokens >= Second),
                     delay |-> IF tokens >= Second THEN 0 ELSE delayFor(s, tokens)]]
  BY DEF checkRateLimit
<1>4. \A z \in Scopes : level[z] = idealLevel(z) /\ lag[z] = idealLag(z)
  BY DEF idealLevel, idealLag
<1>5. /\ level' = [z \in Scopes |-> idealLevel(z)'] /\ lag' = [z \in Scopes |-> idealLag(z)']
  BY DEF idealLevel, idealLag
<1>6. lag' = [lag EXCEPT ![s] = ago]
  <2>1. \A z \in Scopes : idealLag(z)' = IF z = s THEN ago ELSE lag[z]
    BY <1>1, <1>4
  <2>2. lag \in [Scopes -> {lag[z] : z \in Scopes}]
    OBVIOUS
  <2> HIDE DEF lag, ago
  <2> QED BY <1>5, <2>1, <2>2
<1>7. Ideal!refilled(s, lag[s] - ago) = tokens
  <2> DEFINE found == idealLevel(s) + (idealLag(s) - ago) * Limit[s]
  <2>1. Ideal!refilled(s, lag[s] - ago) = IF found > Full(s) THEN Full(s) ELSE found
    BY <1>4 DEF Ideal!refilled, Ideal!Full, Full
  <2>2. found \in Int
    <3> DEFINE n == idealLag(s) - ago
               l == Limit[s]
    <3>1. n \in Int /\ l \in Int /\ idealLevel(s) \in Int
      BY <1>1, IdealTyped
    <3> HIDE DEF n, l
    <3>2. idealLevel(s) + n * l \in Int
      BY <3>1
    <3> QED BY <3>2 DEF n, l
  <2>3. tokens = least(Full(s), found)
    BY <1>1
  <2> HIDE DEF found, tokens
  <2> QED BY <1>2, <2>1, <2>2, <2>3
<1>8. level' = [level EXCEPT ![s] = IF tokens >= Second THEN tokens - Second ELSE tokens]
  <2> DEFINE left == IF tokens >= Second THEN tokens - Second ELSE tokens
  <2>1. \A z \in Scopes : idealLevel(z)' = IF z = s THEN left ELSE level[z]
    BY <1>1, <1>4
  <2>2. level \in [Scopes -> {level[z] : z \in Scopes}]
    OBVIOUS
  <2> HIDE DEF level, left
  <2>3. level' = [level EXCEPT ![s] = left]
    BY <1>5, <2>1, <2>2
  <2> QED BY <2>3 DEF left
<1>9. ago \in 0..Latency /\ ago <= lag[s]
  BY <1>1, <1>4
<1>10. Ideal!Grant(r, s, lag[s] - ago) \/ Ideal!Refuse(r, s, lag[s] - ago)
  <2>1. CASE tokens >= Second
    <3>1. answer' = [answer EXCEPT ![r] = [exceeded |-> FALSE, delay |-> 0]]
      BY <1>3, <2>1
    <3>2. level' = [level EXCEPT ![s] = tokens - Second]
      BY <1>8, <2>1
    <3> QED BY <1>7, <2>1, <3>1, <3>2 DEF Ideal!Grant, Ideal!NoAnswer
  <2>2. CASE ~(tokens >= Second)
    <3>1. /\ delayFor(s, tokens) \in 1..Second
          /\ tokens + delayFor(s, tokens) * Limit[s] >= Second
          /\ tokens + (delayFor(s, tokens) - 1) * Limit[s] < Second
      BY <1>2, <2>2, DelayTyped
    <3>2. answer' = [answer EXCEPT ![r] = [exceeded |-> TRUE, delay |-> delayFor(s, tokens)]]
      BY <1>3, <2>2
    <3>3. level' = [level EXCEPT ![s] = tokens] /\ tokens < Second
      BY <1>2, <1>8, <2>2
    <3> HIDE DEF tokens
    <3> QED BY <1>7, <3>1, <3>2, <3>3 DEF Ideal!Refuse
  <2> QED BY <2>1, <2>2
<1> HIDE DEF tokens
<1> QED BY <1>6, <1>9, <1>10, Zenon DEF Ideal!Serve, Ideal!Grant, Ideal!Refuse

LEMMA IdealStep ==
    ASSUME LimiterAssumption, OneClockInv, OneClock, ~SetBack, LimiterNext
    PROVE  [Ideal!Next]_(Ideal!ibVars)
<1> DEFINE level == [z \in Scopes |-> IF inSight(z) THEN bucket[z].tokens ELSE Full(z)]
           lag == [z \in Scopes |-> IF inSight(z) THEN sinceUpdate(z, 0) ELSE Horizon]
<1>1. CASE Tick
  <2>1. \A s \in Scopes : level[s] = idealLevel(s) /\ lag[s] = idealLag(s)
    BY DEF idealLevel, idealLag
  <2>2. /\ level' = [s \in Scopes |-> idealLevel(s)'] /\ lag' = [s \in Scopes |-> idealLag(s)']
    BY DEF idealLevel, idealLag
  <2>3. \A s \in Scopes :
            /\ idealLevel(s)' = IF lag[s] + 1 < Horizon THEN level[s] ELSE Full(s)
            /\ idealLag(s)' = IF lag[s] + 1 < Horizon THEN lag[s] + 1 ELSE Horizon
    BY <1>1, <2>1, LevelTick
  <2>4. /\ level' = [s \in Scopes |-> IF lag[s] + 1 < Horizon THEN level[s] ELSE Full(s)]
        /\ lag' = [s \in Scopes |-> IF lag[s] + 1 < Horizon THEN lag[s] + 1 ELSE Horizon]
    BY <2>2, <2>3
  <2>5. Ideal!Tick
    BY <1>1, <2>4 DEF Ideal!Tick, Ideal!Full, Full, Ideal!Horizon, Horizon, Tick
  <2> QED BY <2>5 DEF Ideal!Next
<1>2. CASE OpenWindow
  BY <1>2 DEF OpenWindow, Ideal!ibVars, inSight, present, sinceUpdate, Full, Horizon
<1>3. ASSUME NEW r \in Requests, consume(r) PROVE [Ideal!Next]_(Ideal!ibVars)
  <2>1. level' = level /\ lag' = lag
    BY <1>3 DEF consume, inSight, present, sinceUpdate, Full, Horizon
  <2>2. Ideal!Consume(r)
    BY <1>3, <2>1 DEF consume, Ideal!Consume, Ideal!NoAnswer, NoAnswer
  <2> QED BY <2>2 DEF Ideal!Next
<1>4. ASSUME NEW r \in Requests, NEW p \in Processes, readClock(r, p)
      PROVE  [Ideal!Next]_(Ideal!ibVars)
  BY <1>4 DEF readClock, Ideal!ibVars, inSight, present, sinceUpdate, Full, Horizon
<1>5. ASSUME NEW r \in Requests, NEW s \in Scopes, checkRateLimit(r, s)
      PROVE  [Ideal!Next]_(Ideal!ibVars)
  <2>1. reading[r] \in Int /\ LimiterTypeOK
    BY DEF LimiterAssumption, OneClockInv, LimiterTypeOK
  <2>2. setBack(s, reading[r]) \in Nat
    BY <2>1, TokensTyped
  <2>3. ~(setBack(s, reading[r]) > 0)
    BY <1>5 DEF SetBack
  <2>4. setBack(s, reading[r]) = 0
    BY <2>2, <2>3
  <2> QED BY <1>5, <2>4, IdealServe DEF Ideal!Next
<1> QED BY <1>1, <1>2, <1>3, <1>4, <1>5 DEF LimiterNext

(* While all dispatchers share one clock, the script with its lazy refill, its *)
(* rounded delays and its expiring hash implements the ideal bucket, however   *)
(* long it takes to run, except when it runs after one that was given a later  *)
(* reading.                                                                    *)
THEOREM LimiterImplements == ASSUME LimiterAssumption PROVE LimiterSpec => OneClockIdeal
<1>1. LimiterInit => OneClockInv
  BY InitTyped DEF OneClockInv, Agree, LimiterInit, Absent
<1>2. OneClockInv /\ [LimiterNext]_limiterVars => OneClockInv'
  BY AgreeStep
<1>3. LimiterInit => Ideal!Init
  BY IdealInit
<1>4. OneClockInv /\ [LimiterNext]_limiterVars
        => [OneClock => SetBack \/ [Ideal!Next]_(Ideal!ibVars)]_limiterVars
  BY IdealStep
<1> QED BY <1>1, <1>2, <1>3, <1>4, PTL DEF LimiterSpec, OneClockIdeal

-----------------------------------------------------------------------------
(* The deliveries of a tenant (AttemptTiming).                                 *)
Assumptions == LimiterAssumption /\ TimingAssumption /\ BackoffAssumption

-----------------------------------------------------------------------------
(* A worker keeps its process until the delivery is out of its hands.          *)
WorkersPlaced ==
    \A d \in Deliveries :
        /\ job[d].pc \in {"tenant", "granted", "endpoint", "refused", "send"}
              => job[d].on \in Processes
        /\ job[d].pc \in {"granted", "endpoint"} => hasEndpointLimit(d)

(* What a refused delivery was told.                                           *)
DelaysBounded == \A d \in Deliveries : answer[d].delay <= Second

(* Until a delivery is due it is not asked for, but for the clocks.            *)
QuietCovered ==
    \A d \in Deliveries :
        quiet[d] <= IF at(d, "waiting") THEN most(Spread, job[d].due) ELSE Spread

TimingInv ==
    /\ TypeOK /\ Conserved /\ Agree
    /\ WorkersPlaced /\ DelaysBounded /\ WaitBounded /\ QuietCovered

LEMMA TimingInit == Assumptions /\ Init => TimingInv
<1> SUFFICES ASSUME Assumptions, Init PROVE TimingInv
  OBVIOUS
<1>1. LimiterTypeOK /\ Conserved
  BY InitTyped, InitConserved DEF Assumptions, Init
<1>2. Agree
  BY DEF Agree, Init, LimiterInit, Absent
<1>3. /\ MaxAttempts \in Nat \ {0} /\ MaxDelay \in Nat /\ Second \in Nat /\ Spread \in Nat
      /\ Deliveries = Requests
  BY DEF Assumptions, LimiterAssumption, TimingAssumption
<1>4. TypeOK
  BY <1>1, <1>3 DEF TypeOK, Init, JobPcs
<1>5. WorkersPlaced /\ WaitBounded /\ QuietCovered
  BY <1>3 DEF Init, WorkersPlaced, WaitBounded, QuietCovered, at
<1>6. DelaysBounded
  BY <1>3 DEF Init, LimiterInit, NoAnswer, DelaysBounded
<1> QED BY <1>1, <1>2, <1>4, <1>5, <1>6 DEF TimingInv

-----------------------------------------------------------------------------
(* Every step of a delivery is a step of the limiter or leaves it alone.       *)
LEMMA StepsAreLimiters == Assumptions /\ TimingInv /\ [Next]_timingVars => [LimiterNext]_limiterVars
<1> SUFFICES ASSUME Assumptions, TimingInv, [Next]_timingVars PROVE [LimiterNext]_limiterVars
  OBVIOUS
<1>1. /\ TenantScope \in Scopes /\ EndpointScope \in [Deliveries -> Scopes \cup {NoScope}]
      /\ Deliveries = Requests /\ WorkersPlaced
  BY DEF Assumptions, TimingAssumption, TimingInv
<1>2. ASSUME NEW d \in Deliveries, Step(d) PROVE [LimiterNext]_limiterVars
  <2>1. CASE CheckTenantLimit(d)
    BY <1>1, <2>1 DEF CheckTenantLimit, LimiterNext
  <2>2. CASE AskTenantLimit(d)
    BY <1>1, <2>2 DEF AskTenantLimit, LimiterNext
  <2>3. CASE AskEndpointLimit(d)
    <3>1. job[d].on \in Processes
      BY <1>1, <2>3 DEF AskEndpointLimit, WorkersPlaced, at
    <3> QED BY <1>1, <2>3, <3>1 DEF AskEndpointLimit, LimiterNext
  <2>4. CASE CheckEndpointLimit(d)
    <3>1. EndpointScope[d] \in Scopes
      BY <1>1, <2>4 DEF CheckEndpointLimit, WorkersPlaced, at, hasEndpointLimit
    <3> QED BY <1>1, <2>4, <3>1 DEF CheckEndpointLimit, LimiterNext
  <2>5. CASE ScheduleRefused(d)
    BY <1>1, <2>5 DEF ScheduleRefused, LimiterNext
  <2>6. CASE Succeed(d)
    BY <2>6 DEF Succeed
  <2>7. ASSUME NEW status \in {404, 429, 503}, NEW header \in RetryAfter, Fail(d, status, header)
        PROVE  UNCHANGED limiterVars
    BY <2>7 DEF Fail
  <2> QED BY <1>2, <2>1, <2>4, <2>5, <2>6, <2>7, <2>2, <2>3 DEF Step
<1>3. CASE OpenWindow
  BY <1>3 DEF LimiterNext
<1>4. CASE Wait
  BY <1>4 DEF Wait, LimiterNext
<1>5. CASE UNCHANGED timingVars
  BY <1>5 DEF timingVars
<1> QED BY <1>2, <1>3, <1>4, <1>5 DEF Next

LEMMA LimiterKept ==
    Assumptions /\ TimingInv /\ [Next]_timingVars => LimiterTypeOK' /\ Conserved' /\ Agree'
<1> SUFFICES ASSUME Assumptions, TimingInv, [Next]_timingVars
             PROVE  LimiterTypeOK' /\ Conserved' /\ Agree'
  OBVIOUS
<1>1. [LimiterNext]_limiterVars
  BY StepsAreLimiters
<1>2. LimiterInv /\ OneClockInv
  BY DEF TimingInv, TypeOK, LimiterInv, OneClockInv
<1>3. LimiterInv' /\ OneClockInv'
  BY <1>1, <1>2, LimiterStep, AgreeStep DEF Assumptions
<1> QED BY <1>3 DEF LimiterInv, OneClockInv

-----------------------------------------------------------------------------
(* What each step does to the jobs.                                            *)
JobInv == TypeOK /\ WorkersPlaced /\ DelaysBounded /\ WaitBounded /\ QuietCovered

LEMMA Numbers ==
    Assumptions => /\ MaxAttempts \in Nat \ {0} /\ MaxDelay \in Nat /\ Second \in Nat \ {0}
                   /\ Spread \in Nat /\ Deliveries = Requests
                   /\ TenantScope \in Scopes
                   /\ EndpointScope \in [Deliveries -> Scopes \cup {NoScope}]
                   /\ \A d \in Deliveries : EndpointScope[d] # TenantScope \/ ~hasEndpointLimit(d)
BY DEF Assumptions, LimiterAssumption, TimingAssumption, hasEndpointLimit

(* An answer of the limiter never asks for more than a second.                 *)
LEMMA CheckAnswers ==
    ASSUME Assumptions, TypeOK, DelaysBounded, NEW d \in Deliveries, NEW s \in Scopes,
           checkRateLimit(d, s)
    PROVE  DelaysBounded' /\ answer'[d].exceeded \in BOOLEAN
<1>1. LimiterAssumption /\ LimiterTypeOK /\ reading[d] \in Int /\ Second \in Nat
      /\ Deliveries = Requests
  BY Numbers DEF Assumptions, TypeOK, LimiterTypeOK, LimiterAssumption
<1> DEFINE tokens == tokensAt(s, reading[d])
           delay == IF tokens >= Second THEN 0 ELSE delayFor(s, tokens)
<1>2. delay <= Second
  <2>1. tokens \in Nat
    BY <1>1, TokensTyped
  <2>2. CASE tokens < Second
    BY <1>1, <2>1, <2>2, DelayTyped
  <2> QED BY <1>1, <2>1, <2>2
<1>3. answer' = [answer EXCEPT ![d] = [exceeded |-> ~(tokens >= Second), delay |-> delay]]
  BY DEF checkRateLimit
<1> HIDE DEF delay
<1>4. answer'[d] = [exceeded |-> ~(tokens >= Second), delay |-> delay]
  BY <1>1, <1>3 DEF LimiterTypeOK
<1>5. \A o \in Deliveries : o # d => answer'[o] = answer[o]
  BY <1>1, <1>3 DEF LimiterTypeOK
<1> QED BY <1>2, <1>4, <1>5 DEF DelaysBounded

LEMMA RefusalsTyped ==
    ASSUME Assumptions, TypeOK, NEW d \in Deliveries, countRefusal(d)
    PROVE  refusals' \in [Deliveries -> Nat]
BY DEF TypeOK, countRefusal

LEMMA TenantAsked ==
    ASSUME Assumptions, JobInv, LimiterTypeOK', NEW d \in Deliveries, AskTenantLimit(d)
    PROVE  JobInv'
<1>1. PICK p \in Processes :
          /\ readClock(d, p)
          /\ job' = [job EXCEPT ![d].pc = "tenant", ![d].on = p, ![d].due = 0]
  BY DEF AskTenantLimit
<1>2. /\ at(d, "waiting") /\ quiet' = quiet /\ refusals' = refusals /\ answer' = answer
      /\ TypeOK /\ LimiterTypeOK
      /\ \E o \in Processes : job[d].due <= offset[o]
  BY <1>1 DEF AskTenantLimit, JobInv, TypeOK, readClock
<1>3. /\ job'[d] = [pc |-> "tenant", on |-> p, due |-> 0, attempt |-> job[d].attempt]
      /\ job' \in [Deliveries -> [pc : JobPcs, on : Processes \cup {Nobody},
                                  due : Nat, attempt : 1..MaxAttempts]]
      /\ \A o \in Deliveries : o # d => job'[o] = job[o]
  BY <1>1, <1>2, ZenonT(40) DEF TypeOK, JobPcs
<1>4. TypeOK'
  BY <1>2, <1>3 DEF TypeOK
<1>5. WorkersPlaced' /\ WaitBounded'
  BY <1>3 DEF JobInv, WorkersPlaced, WaitBounded, at, hasEndpointLimit
<1>6. DelaysBounded'
  BY <1>2 DEF JobInv, DelaysBounded
<1>7. quiet[d] <= Spread
  <2>1. PICK o \in Processes : job[d].due <= offset[o]
    BY <1>2
  <2>2. offset[o] <= Spread /\ offset[o] \in Int /\ job[d].due \in Int /\ Spread \in Nat
        /\ quiet[d] \in Nat
    BY <1>2, Numbers DEF LimiterTypeOK, TypeOK
  <2>3. quiet[d] <= most(Spread, job[d].due)
    BY <1>2 DEF JobInv, QuietCovered
  <2> QED BY <2>1, <2>2, <2>3
<1>8. QuietCovered'
  BY <1>2, <1>3, <1>7 DEF JobInv, QuietCovered, at
<1> QED BY <1>4, <1>5, <1>6, <1>8 DEF JobInv

(* Where a worker goes on in the meantime.                                     *)
LEMMA WentOn ==
    ASSUME Assumptions, JobInv, LimiterTypeOK', DelaysBounded', NEW d \in Deliveries,
           ~at(d, "waiting"), job[d].on \in Processes, NEW pc \in JobPcs \ {"waiting"},
           pc \in {"granted", "endpoint"} => hasEndpointLimit(d),
           goto(d, pc), quiet' = quiet, refusals' \in [Deliveries -> Nat]
    PROVE  JobInv'
<1>1. TypeOK
  BY DEF JobInv
<1>2. /\ job'[d] = [pc |-> pc, on |-> job[d].on, due |-> job[d].due, attempt |-> job[d].attempt]
      /\ job' \in [Deliveries -> [pc : JobPcs, on : Processes \cup {Nobody},
                                  due : Nat, attempt : 1..MaxAttempts]]
      /\ \A o \in Deliveries : o # d => job'[o] = job[o]
  BY <1>1 DEF TypeOK, goto
<1>3. TypeOK'
  BY <1>1, <1>2 DEF TypeOK
<1>4. WorkersPlaced'
  BY <1>2 DEF JobInv, WorkersPlaced, hasEndpointLimit
<1>5. WaitBounded'
  BY <1>2 DEF JobInv, WaitBounded, at
<1>6. QuietCovered'
  BY <1>2 DEF JobInv, QuietCovered, at
<1> QED BY <1>3, <1>4, <1>5, <1>6 DEF JobInv

LEMMA TenantChecked ==
    ASSUME Assumptions, JobInv, LimiterTypeOK', NEW d \in Deliveries, CheckTenantLimit(d)
    PROVE  JobInv'
<1> DEFINE pc == IF answer'[d].exceeded THEN "refused"
                 ELSE IF hasEndpointLimit(d) THEN "granted" ELSE "send"
<1>1. /\ at(d, "tenant") /\ checkRateLimit(d, TenantScope) /\ goto(d, pc) /\ quiet' = quiet
      /\ refusals' \in [Deliveries -> Nat]
  BY RefusalsTyped DEF CheckTenantLimit, JobInv
<1>2. DelaysBounded'
  BY <1>1, CheckAnswers, Numbers DEF JobInv
<1>3. ~at(d, "waiting") /\ job[d].on \in Processes
  BY <1>1 DEF JobInv, WorkersPlaced, at
<1>4. pc \in JobPcs \ {"waiting"} /\ (pc \in {"granted", "endpoint"} => hasEndpointLimit(d))
  BY DEF JobPcs
<1> HIDE DEF pc
<1> QED BY <1>1, <1>2, <1>3, <1>4, WentOn

LEMMA EndpointAsked ==
    ASSUME Assumptions, JobInv, LimiterTypeOK', NEW d \in Deliveries, AskEndpointLimit(d)
    PROVE  JobInv'
<1>1. /\ at(d, "granted") /\ goto(d, "endpoint") /\ quiet' = quiet /\ refusals' = refusals
      /\ answer' = answer
  BY DEF AskEndpointLimit, readClock
<1>2. ~at(d, "waiting") /\ job[d].on \in Processes /\ hasEndpointLimit(d)
  BY <1>1 DEF JobInv, WorkersPlaced, at
<1>3. DelaysBounded' /\ refusals' \in [Deliveries -> Nat] /\ "endpoint" \in JobPcs \ {"waiting"}
  BY <1>1 DEF JobInv, DelaysBounded, TypeOK, JobPcs
<1> QED BY <1>1, <1>2, <1>3, WentOn

LEMMA EndpointChecked ==
    ASSUME Assumptions, JobInv, LimiterTypeOK', NEW d \in Deliveries, CheckEndpointLimit(d)
    PROVE  JobInv'
<1> DEFINE pc == IF answer'[d].exceeded THEN "refused" ELSE "send"
<1>1. /\ at(d, "endpoint") /\ checkRateLimit(d, EndpointScope[d]) /\ goto(d, pc)
      /\ quiet' = quiet /\ refusals' \in [Deliveries -> Nat]
  BY RefusalsTyped DEF CheckEndpointLimit, JobInv
<1>2. ~at(d, "waiting") /\ job[d].on \in Processes /\ EndpointScope[d] \in Scopes
  BY <1>1, Numbers DEF JobInv, WorkersPlaced, at, hasEndpointLimit
<1>3. DelaysBounded'
  BY <1>1, <1>2, CheckAnswers DEF JobInv
<1>4. pc \in JobPcs \ {"waiting"} /\ ~(pc \in {"granted", "endpoint"})
  BY DEF JobPcs
<1> HIDE DEF pc
<1> QED BY <1>1, <1>2, <1>3, <1>4, WentOn

LEMMA RefusedScheduled ==
    ASSUME Assumptions, JobInv, LimiterTypeOK', NEW d \in Deliveries, ScheduleRefused(d)
    PROVE  JobInv'
<1>1. /\ at(d, "refused") /\ TypeOK /\ LimiterTypeOK /\ quiet' = quiet /\ refusals' = refusals
      /\ requeue(d, ahead(d) + answer[d].delay, job[d].attempt) /\ consume(d)
      /\ Deliveries = Requests
  BY Numbers DEF ScheduleRefused, JobInv, TypeOK
<1>2. ahead(d) \in 0..Spread /\ Spread \in Nat /\ Second \in Nat /\ MaxDelay \in Nat
  BY <1>1, Numbers DEF JobInv, WorkersPlaced, at, ahead, LimiterTypeOK
<1>3. answer[d].delay \in Nat /\ answer[d].delay <= Second
  BY <1>1 DEF JobInv, DelaysBounded, LimiterTypeOK
<1> DEFINE due == ahead(d) + answer[d].delay
<1>4. due \in Nat /\ due <= Spread + most(MaxDelay, Second)
  BY <1>2, <1>3
<1>5. job' = [job EXCEPT ![d] = [pc |-> "waiting", on |-> Nobody, due |-> due,
                                attempt |-> job[d].attempt]]
  BY <1>1 DEF requeue
<1> HIDE DEF due
<1>6. /\ job'[d] = [pc |-> "waiting", on |-> Nobody, due |-> due, attempt |-> job[d].attempt]
      /\ job' \in [Deliveries -> [pc : JobPcs, on : Processes \cup {Nobody},
                                  due : Nat, attempt : 1..MaxAttempts]]
      /\ \A o \in Deliveries : o # d => job'[o] = job[o]
  BY <1>1, <1>4, <1>5 DEF TypeOK, JobPcs
<1>7. TypeOK'
  BY <1>1, <1>6 DEF TypeOK
<1>8. WorkersPlaced'
  BY <1>6 DEF JobInv, WorkersPlaced, at, hasEndpointLimit
<1>9. WaitBounded'
  BY <1>4, <1>6 DEF JobInv, WaitBounded, at
<1>10. DelaysBounded'
  BY <1>1, <1>2 DEF JobInv, DelaysBounded, consume, NoAnswer, LimiterTypeOK
<1>11. QuietCovered'
  <2>1. quiet[d] <= Spread /\ quiet[d] \in Nat
    BY <1>1 DEF JobInv, QuietCovered, at, TypeOK
  <2>2. quiet[d] <= most(Spread, due)
    BY <1>2, <1>4, <2>1
  <2> QED BY <1>1, <1>6, <2>2 DEF JobInv, QuietCovered, at
<1> QED BY <1>7, <1>8, <1>9, <1>10, <1>11 DEF JobInv

LEMMA Finished ==
    ASSUME Assumptions, JobInv, NEW d \in Deliveries, finish(d), UNCHANGED limiterVars
    PROVE  JobInv'
<1>1. /\ TypeOK /\ LimiterTypeOK' /\ answer' = answer
      /\ job' = [job EXCEPT ![d].pc = "ended", ![d].on = Nobody]
      /\ quiet' = [quiet EXCEPT ![d] = 0] /\ refusals' = [refusals EXCEPT ![d] = 0]
      /\ Spread \in Nat
  BY Numbers DEF finish, JobInv, TypeOK, LimiterTypeOK, limiterVars
<1>2. job \in [Deliveries -> [pc : JobPcs, on : Processes \cup {Nobody},
                             due : Nat, attempt : 1..MaxAttempts]]
  BY <1>1 DEF TypeOK
<1>3. /\ job'[d] = [pc |-> "ended", on |-> Nobody, due |-> job[d].due, attempt |-> job[d].attempt]
      /\ \A o \in Deliveries : o # d => job'[o] = job[o]
      /\ job' = [o \in Deliveries |-> job'[o]]
  BY <1>1, <1>2
<1>4. TypeOK'
  BY <1>1, <1>2, <1>3 DEF TypeOK, JobPcs
<1>5. WorkersPlaced' /\ WaitBounded' /\ DelaysBounded'
  <2>1. job'[d].pc = "ended"
    BY <1>3
  <2>2. WorkersPlaced' /\ WaitBounded'
    BY <1>3, <2>1 DEF JobInv, WorkersPlaced, WaitBounded, at, hasEndpointLimit
  <2> QED BY <1>1, <2>2 DEF JobInv, DelaysBounded
<1>6. QuietCovered'
  BY <1>1, <1>3 DEF JobInv, QuietCovered, at, TypeOK
<1> QED BY <1>4, <1>5, <1>6 DEF JobInv

(* The delay chosen after a failure covers what the answer asked for, on a     *)
(* clock that is ahead, and stays within the maximum.                          *)
LEMMA DelayCovers ==
    ASSUME Assumptions, JobInv, NEW d \in Deliveries, at(d, "send"),
           NEW status \in {404, 429, 503}, NEW header \in RetryAfter,
           NEW delay \in nextAttemptDelays(d, status, header)
    PROVE  /\ delay \in Nat /\ delay <= MaxDelay
           /\ askedFor(d, status, header) \in Int
           /\ askedFor(d, status, header) <= most(Spread, ahead(d) + delay)
<1> DEFINE clock == ahead(d)
<1>1. /\ clock \in 0..Spread /\ Spread \in Nat /\ Second \in Nat /\ MaxDelay \in Nat
      /\ job[d].attempt \in 1..MaxAttempts
  BY Numbers DEF JobInv, WorkersPlaced, at, ahead, TypeOK, LimiterTypeOK
<1>2. header.kind \in {"seconds", "date", "none"} /\ header.value \in Int
  BY DEF Assumptions, TimingAssumption
<1>3. header.value * Second \in Int
  <2> DEFINE v == header.value
  <2>1. v \in Int
    BY <1>2
  <2> HIDE DEF v
  <2>2. v * Second \in Int
    BY <1>1, <2>1, SMT
  <2> QED BY <2>2 DEF v
<1>4. CASE status = 429 /\ header.kind # "none"
  <2>1. delay = least(MaxDelay, most(0, IF header.kind = "seconds" THEN header.value * Second
                                        ELSE header.value - clock))
    BY <1>4 DEF nextAttemptDelays, retryAfterDelay
  <2>2. askedFor(d, status, header) =
            least(MaxDelay, IF header.kind = "seconds" THEN header.value * Second ELSE header.value)
    BY <1>2, <1>4 DEF askedFor
  <2> HIDE DEF clock
  <2> QED BY <1>1, <1>2, <1>3, <2>1, <2>2 DEF clock
<1>5. CASE ~(status = 429 /\ header.kind # "none")
  <2> DEFINE low == shortest(job[d].attempt)
             high == longest(job[d].attempt)
  <2>1. low \in Nat /\ high \in Int
    <3> DEFINE b == backoff(job[d].attempt)
               c == scale(job[d].attempt)
    <3>1. b \in Nat /\ c \in Nat \ {0}
      BY <1>1 DEF Assumptions, BackoffAssumption
    <3>2. low = (3 * b) \div (4 * c) /\ high = (5 * b - 1) \div (4 * c)
      BY DEF shortest, longest
    <3> HIDE DEF b, c, low, high
    <3>3. 4 * c \in Nat \ {0} /\ 3 * b \in Nat /\ 5 * b - 1 \in Int
      BY <3>1
    <3>4. \A n \in Nat, m \in Nat \ {0} : n \div m \in Nat
      BY SMT
    <3>5. \A n \in Int, m \in Nat \ {0} : n \div m \in Int
      BY SMT
    <3> QED BY <3>2, <3>3, <3>4, <3>5
  <2>2. delay \in {least(x, MaxDelay) : x \in low..high}
    BY <1>5 DEF nextAttemptDelays, retryAfterDelay, calculateBackoffDelay
  <2>3. askedFor(d, status, header) = least(MaxDelay, low)
    BY <1>2, <1>5 DEF askedFor
  <2> HIDE DEF low, high, clock
  <2>4. PICK x \in low..high : delay = least(x, MaxDelay)
    BY <2>2
  <2>5. x \in Int /\ x >= low
    BY <2>1, <2>4
  <2> QED BY <1>1, <2>1, <2>3, <2>4, <2>5 DEF clock
<1> QED BY <1>4, <1>5

LEMMA Failed ==
    ASSUME Assumptions, JobInv, NEW d \in Deliveries, NEW status \in {404, 429, 503},
           NEW header \in RetryAfter, Fail(d, status, header)
    PROVE  JobInv'
<1>1. at(d, "send") /\ UNCHANGED limiterVars /\ TypeOK
  BY DEF Fail, JobInv
<1>2. CASE isLast(d) \/ ~isRetryable(status)
  BY <1>1, <1>2, Finished DEF Fail
<1>3. CASE ~(isLast(d) \/ ~isRetryable(status))
  <2>1. PICK delay \in nextAttemptDelays(d, status, header) :
            requeue(d, ahead(d) + delay, job[d].attempt + 1)
    BY <1>3 DEF Fail
  <2> DEFINE due == ahead(d) + delay
             asked == askedFor(d, status, header)
  <2>2. /\ delay \in Nat /\ delay <= MaxDelay /\ asked \in Int /\ asked <= most(Spread, due)
        /\ ahead(d) \in 0..Spread /\ Spread \in Nat /\ Second \in Nat /\ MaxDelay \in Nat
    BY <1>1, <2>1, DelayCovers, Numbers
       DEF JobInv, WorkersPlaced, at, ahead, TypeOK, LimiterTypeOK
  <2>3. due \in Nat /\ due <= Spread + most(MaxDelay, Second)
    BY <2>2
  <2>4. job[d].attempt + 1 \in 1..MaxAttempts
    BY <1>1, <1>3, Numbers DEF isLast, TypeOK
  <2>5. /\ job' = [job EXCEPT ![d] = [pc |-> "waiting", on |-> Nobody, due |-> due,
                                      attempt |-> job[d].attempt + 1]]
        /\ quiet' = [quiet EXCEPT ![d] = most(0, asked)]
        /\ refusals' = [refusals EXCEPT ![d] = 0]
    BY <1>3, <2>1 DEF Fail, requeue
  <2> HIDE DEF due, asked
  <2>6. /\ job'[d] = [pc |-> "waiting", on |-> Nobody, due |-> due, attempt |-> job[d].attempt + 1]
        /\ job' \in [Deliveries -> [pc : JobPcs, on : Processes \cup {Nobody},
                                    due : Nat, attempt : 1..MaxAttempts]]
        /\ \A o \in Deliveries : o # d => job'[o] = job[o]
    BY <1>1, <2>3, <2>4, <2>5 DEF TypeOK, JobPcs
  <2>7. TypeOK'
    <3>1. most(0, asked) \in Nat
      BY <2>2
    <3>2. quiet' \in [Deliveries -> Nat] /\ refusals' \in [Deliveries -> Nat]
      BY <1>1, <2>5, <3>1 DEF TypeOK
    <3> QED BY <1>1, <2>6, <3>2 DEF TypeOK, LimiterTypeOK, limiterVars
  <2>8. WorkersPlaced' /\ DelaysBounded'
    BY <1>1, <2>6
       DEF JobInv, WorkersPlaced, DelaysBounded, at, hasEndpointLimit, limiterVars
  <2>9. WaitBounded'
    BY <2>3, <2>6 DEF JobInv, WaitBounded, at
  <2>10. QuietCovered'
    <3>1. quiet'[d] <= most(Spread, due) /\ (\A o \in Deliveries : o # d => quiet'[o] = quiet[o])
      BY <1>1, <2>2, <2>3, <2>5 DEF TypeOK
    <3> QED BY <2>6, <3>1 DEF JobInv, QuietCovered, at
  <2> QED BY <2>7, <2>8, <2>9, <2>10 DEF JobInv
<1> QED BY <1>2, <1>3

LEMMA Waited ==
    ASSUME Assumptions, JobInv, LimiterTypeOK', Wait
    PROVE  JobInv'
<1>1. /\ TypeOK /\ answer' = answer /\ refusals' = refusals
      /\ job' = [d \in Deliveries |-> [job[d] EXCEPT !.due = most(0, @ - 1)]]
      /\ quiet' = [d \in Deliveries |-> most(0, quiet[d] - 1)]
      /\ Spread \in Nat /\ Second \in Nat /\ MaxDelay \in Nat
  BY Numbers DEF Wait, Tick, JobInv
<1>2. \A d \in Deliveries :
          /\ job[d] \in [pc : JobPcs, on : Processes \cup {Nobody}, due : Nat,
                        attempt : 1..MaxAttempts]
          /\ quiet[d] \in Nat
  BY <1>1 DEF TypeOK
<1>3. \A d \in Deliveries :
          /\ job'[d] = [pc |-> job[d].pc, on |-> job[d].on, due |-> most(0, job[d].due - 1),
                        attempt |-> job[d].attempt]
          /\ quiet'[d] = most(0, quiet[d] - 1)
  BY <1>1, <1>2
<1>4. TypeOK'
  BY <1>1, <1>2, <1>3 DEF TypeOK
<1>5. WorkersPlaced' /\ DelaysBounded'
  BY <1>1, <1>3, ZenonT(40) DEF JobInv, WorkersPlaced, DelaysBounded, at, hasEndpointLimit
<1>6. WaitBounded'
  BY <1>1, <1>2, <1>3 DEF JobInv, WaitBounded, at
<1>7. QuietCovered'
  <2> SUFFICES ASSUME NEW d \in Deliveries
               PROVE  (quiet[d] <= IF at(d, "waiting") THEN most(Spread, job[d].due) ELSE Spread)'
    BY DEF QuietCovered
  <2>1. quiet[d] <= IF at(d, "waiting") THEN most(Spread, job[d].due) ELSE Spread
    BY DEF JobInv, QuietCovered
  <2>2. quiet[d] \in Nat /\ job[d].due \in Int
    BY <1>2
  <2>3. /\ quiet'[d] = most(0, quiet[d] - 1) /\ job'[d].due = most(0, job[d].due - 1)
        /\ job'[d].pc = job[d].pc
    <3> DEFINE due == most(0, job[d].due - 1)
    <3>1. /\ job'[d] = [pc |-> job[d].pc, on |-> job[d].on, due |-> due,
                        attempt |-> job[d].attempt]
          /\ quiet'[d] = most(0, quiet[d] - 1)
      BY <1>3
    <3> HIDE DEF due
    <3>2. job'[d].pc = job[d].pc /\ job'[d].due = due
      BY <3>1
    <3> QED BY <3>1, <3>2 DEF due
  <2> QED BY <1>1, <2>1, <2>2, <2>3 DEF at
<1> QED BY <1>4, <1>5, <1>6, <1>7 DEF JobInv

-----------------------------------------------------------------------------
LEMMA TimingStep == Assumptions /\ TimingInv /\ [Next]_timingVars => TimingInv'
<1> SUFFICES ASSUME Assumptions, TimingInv, [Next]_timingVars PROVE TimingInv'
  OBVIOUS
<1>1. LimiterTypeOK' /\ Conserved' /\ Agree'
  BY LimiterKept
<1>2. JobInv
  BY DEF TimingInv, JobInv
<1> SUFFICES JobInv'
  BY <1>1 DEF TimingInv, JobInv
<1>3. ASSUME NEW d \in Deliveries, Step(d) PROVE JobInv'
  <2>1. CASE AskTenantLimit(d)
    BY <1>1, <1>2, <2>1, TenantAsked
  <2>2. CASE AskEndpointLimit(d)
    BY <1>1, <1>2, <2>2, EndpointAsked
  <2>3. CASE CheckTenantLimit(d)
    BY <1>1, <1>2, <2>3, TenantChecked
  <2>4. CASE CheckEndpointLimit(d)
    BY <1>1, <1>2, <2>4, EndpointChecked
  <2>5. CASE ScheduleRefused(d)
    BY <1>1, <1>2, <2>5, RefusedScheduled
  <2>6. CASE Succeed(d)
    BY <1>2, <2>6, Finished DEF Succeed
  <2>7. ASSUME NEW status \in {404, 429, 503}, NEW header \in RetryAfter, Fail(d, status, header)
        PROVE  JobInv'
    BY <1>2, <2>7, Failed
  <2> QED BY <1>3, <2>3, <2>4, <2>5, <2>6, <2>7, <2>1, <2>2 DEF Step
<1>4. CASE OpenWindow /\ UNCHANGED <<job, quiet, refusals>>
  BY <1>1, <1>2, <1>4 DEF OpenWindow, JobInv, TypeOK, WorkersPlaced, DelaysBounded, WaitBounded,
     QuietCovered, at, hasEndpointLimit
<1>5. CASE Wait
  BY <1>1, <1>2, <1>5, Waited
<1>6. CASE UNCHANGED timingVars
  BY <1>1, <1>2, <1>6 DEF timingVars, limiterVars, JobInv, TypeOK, WorkersPlaced, DelaysBounded,
     WaitBounded, QuietCovered, at, hasEndpointLimit
<1> QED BY <1>3, <1>4, <1>5, <1>6 DEF Next

THEOREM TimingInvariant == ASSUME Assumptions PROVE Spec => []TimingInv
BY TimingInit, TimingStep, PTL DEF Spec

(* A delivery is never sent before its receiver's last answer allows, whatever *)
(* process scheduled it and whatever process sends it, but for their clocks.   *)
THEOREM RetriesRespected == ASSUME Assumptions PROVE Spec => []RetryRespected
<1>1. TimingInv => RetryRespected
  BY DEF TimingInv, QuietCovered, RetryRespected, at
<1> QED BY <1>1, TimingInvariant, PTL

(* Nothing a receiver or the limiter says postpones a delivery further than    *)
(* the maximum delay or a second.                                              *)
THEOREM WaitsBounded == ASSUME Assumptions PROVE Spec => []WaitBounded
<1>1. TimingInv => WaitBounded
  BY DEF TimingInv
<1> QED BY <1>1, TimingInvariant, PTL

(* Type correctness.                                                           *)
THEOREM TimingTypeCorrect == ASSUME Assumptions PROVE Spec => []TypeOK
<1>1. TimingInv => TypeOK
  BY DEF TimingInv
<1> QED BY <1>1, TimingInvariant, PTL

-----------------------------------------------------------------------------
(* The deliveries use the limiter as its module says, which makes its theorems *)
(* theirs.                                                                     *)
THEOREM TimingUsesLimiter == ASSUME Assumptions PROVE Spec => LimiterSpec
<1>1. Init => LimiterInit
  BY DEF Init
<1>2. TimingInv /\ [Next]_timingVars => [LimiterNext]_limiterVars
  BY StepsAreLimiters
<1> QED BY <1>1, <1>2, TimingInvariant, PTL DEF Spec, LimiterSpec

(* However the deliveries of a tenant come, a scope grants its burst and rate. *)
THEOREM TimingBounded == ASSUME Assumptions PROVE Spec => []WindowBound
BY TimingUsesLimiter, LimiterBounded, PTL DEF Assumptions

(* With one clock the deliveries meet an ideal token bucket.                   *)
THEOREM TimingIdeal == ASSUME Assumptions PROVE Spec => OneClockIdeal
BY TimingUsesLimiter, LimiterImplements, PTL DEF Assumptions

-----------------------------------------------------------------------------
(* With one process its connection keeps the scripts in the order of their     *)
(* readings, so that none sets updatedAt back.                                 *)
SoleProcess == \A p, q \in Processes : p = q

InOrder ==
    /\ \A d \in asking : /\ job[d].pc \in {"tenant", "endpoint"} /\ job[d].on \in Processes
                         /\ reading[d] <= offset[job[d].on]
    /\ \A s \in Scopes :
          present(s) => /\ \A p \in Processes : sinceUpdate(s, offset[p]) >= 0
                        /\ \A d \in asking : sinceUpdate(s, reading[d]) >= 0

LEMMA NoneSetBack == LimiterTypeOK /\ InOrder => ~SetBack
<1> SUFFICES ASSUME LimiterTypeOK, InOrder, NEW r \in Requests, NEW s \in Scopes,
                    checkRateLimit(r, s)
             PROVE  ~(setBack(s, reading[r]) > 0)
  BY DEF SetBack
<1>1. r \in asking
  BY DEF checkRateLimit
<1>2. sinceUpdate(s, reading[r]) \in Int
  BY DEF LimiterTypeOK, sinceUpdate, LimiterAssumption
<1>3. present(s) => sinceUpdate(s, reading[r]) >= 0
  BY <1>1 DEF InOrder
<1> QED BY <1>2, <1>3 DEF setBack, most

LEMMA AskedInOrder ==
    ASSUME Assumptions, TypeOK, InOrder, NEW d \in Deliveries, NEW p \in Processes,
           readClock(d, p), job'[d].pc \in {"tenant", "endpoint"}, job'[d].on = p,
           \A o \in Deliveries : o # d => job'[o] = job[o]
    PROVE  InOrder'
<1>1. /\ asking' = asking \cup {d} /\ offset' = offset /\ bucket' = bucket
      /\ asking \subseteq Deliveries /\ d \notin asking
  BY Numbers DEF readClock, TypeOK, LimiterTypeOK
<1>2. /\ reading'[d] = offset[p] /\ \A o \in asking : reading'[o] = reading[o]
      /\ offset[p] \in Int
  BY <1>1, Numbers DEF readClock, TypeOK, LimiterTypeOK, Assumptions, LimiterAssumption
<1>3. \A o \in asking' : /\ job'[o].pc \in {"tenant", "endpoint"} /\ job'[o].on \in Processes
                         /\ reading'[o] <= offset'[job'[o].on]
  BY <1>1, <1>2 DEF InOrder
<1>4. \A o \in asking' : o = d \/ o \in asking
  BY <1>1
<1> QED BY <1>1, <1>2, <1>3, <1>4 DEF InOrder, present, sinceUpdate

LEMMA CheckedInOrder ==
    ASSUME Assumptions, SoleProcess, TypeOK, InOrder, NEW d \in Deliveries, NEW s \in Scopes,
           checkRateLimit(d, s), isNext(d), NEW pc, goto(d, pc)
    PROVE  InOrder'
<1>1. /\ d \in asking /\ asking' = asking \ {d} /\ offset' = offset
      /\ asking \subseteq Deliveries /\ Deliveries = Requests
  BY Numbers DEF checkRateLimit, TypeOK, LimiterTypeOK
<1>2. /\ bucket'[s].idle = 0 /\ bucket'[s].ahead = reading[d]
      /\ \A z \in Scopes : z # s => bucket'[z] = bucket[z]
  BY DEF checkRateLimit, TypeOK, LimiterTypeOK
<1>3. \A o \in asking' : reading'[o] = reading[o] /\ job'[o] = job[o] /\ o \in asking
  BY <1>1 DEF checkRateLimit, goto, TypeOK, LimiterTypeOK
<1>4. \A o \in asking : job[o].on = job[d].on /\ reading[d] <= reading[o]
  BY <1>1 DEF InOrder, SoleProcess, isNext
<1>5. \A p \in Processes : reading[d] <= offset[p] /\ offset[p] \in Int
  BY <1>1 DEF InOrder, SoleProcess, TypeOK, LimiterTypeOK, Assumptions, LimiterAssumption
<1>6. \A o \in asking : reading[o] \in Int
  BY <1>1 DEF TypeOK, LimiterTypeOK, Assumptions, LimiterAssumption
<1>7. ASSUME NEW z \in Scopes, present(z)'
      PROVE  /\ \A p \in Processes : sinceUpdate(z, offset[p])' >= 0
             /\ \A o \in asking' : sinceUpdate(z, reading[o])' >= 0
  <2>1. CASE z = s
    BY <1>1, <1>2, <1>3, <1>4, <1>5, <1>6, <2>1 DEF sinceUpdate
  <2>2. CASE z # s
    <3>1. present(z)
      BY <1>2, <1>7, <2>2 DEF present
    <3> QED BY <1>1, <1>2, <1>3, <2>2, <3>1 DEF InOrder, sinceUpdate
  <2> QED BY <2>1, <2>2
<1>8. \A o \in asking' : /\ job'[o].pc \in {"tenant", "endpoint"} /\ job'[o].on \in Processes
                         /\ reading'[o] <= offset'[job'[o].on]
  BY <1>1, <1>3 DEF InOrder
<1> QED BY <1>7, <1>8 DEF InOrder

LEMMA TickedInOrder == ASSUME Assumptions, TypeOK, InOrder, Wait PROVE InOrder'
<1>1. /\ asking' = asking /\ offset' = offset /\ asking \subseteq Requests
      /\ Deliveries = Requests
  BY Numbers DEF Wait, Tick, TypeOK, LimiterTypeOK
<1>2. \A d \in asking : /\ reading[d] \in Int /\ reading'[d] = reading[d] - 1
                        /\ job'[d].pc = job[d].pc /\ job'[d].on = job[d].on
  BY <1>1 DEF Wait, Tick, TypeOK, LimiterTypeOK, Assumptions, LimiterAssumption
<1>3. \A p \in Processes : offset[p] \in Int
  BY DEF TypeOK, LimiterTypeOK, Assumptions, LimiterAssumption
<1>4. ASSUME NEW s \in Scopes, present(s)'
      PROVE  /\ present(s) /\ bucket'[s].idle = bucket[s].idle + 1
             /\ bucket'[s].ahead = bucket[s].ahead
             /\ bucket[s].idle \in Int /\ bucket[s].ahead \in Int
  BY <1>4 DEF Wait, Tick, TypeOK, LimiterTypeOK, Assumptions, LimiterAssumption, present, Absent
<1>5. ASSUME NEW s \in Scopes, present(s)'
      PROVE  /\ \A p \in Processes : sinceUpdate(s, offset[p])' >= 0
             /\ \A d \in asking' : sinceUpdate(s, reading[d])' >= 0
  BY <1>1, <1>2, <1>3, <1>4, <1>5 DEF InOrder, sinceUpdate
<1>6. \A d \in asking' : /\ job'[d].pc \in {"tenant", "endpoint"} /\ job'[d].on \in Processes
                         /\ reading'[d] <= offset'[job'[d].on]
  BY <1>1, <1>2, <1>3 DEF InOrder
<1> QED BY <1>5, <1>6 DEF InOrder

LEMMA OtherInOrder ==
    ASSUME TypeOK, InOrder, UNCHANGED <<offset, asking, reading, bucket>>,
           \A d \in asking : job'[d] = job[d]
    PROVE  InOrder'
BY DEF InOrder, present, sinceUpdate

LEMMA OrderStep ==
    Assumptions /\ SoleProcess /\ TimingInv /\ InOrder /\ [Next]_timingVars => InOrder'
<1> SUFFICES ASSUME Assumptions, SoleProcess, TimingInv, InOrder, [Next]_timingVars PROVE InOrder'
  OBVIOUS
<1>1. /\ TypeOK /\ WorkersPlaced /\ Deliveries = Requests /\ asking \subseteq Deliveries
      /\ TenantScope \in Scopes /\ EndpointScope \in [Deliveries -> Scopes \cup {NoScope}]
  BY Numbers DEF TimingInv, TypeOK, LimiterTypeOK
<1>2. ASSUME NEW d \in Deliveries, Step(d) PROVE InOrder'
  <2>1. CASE AskTenantLimit(d)
    BY <1>1, <2>1, AskedInOrder DEF AskTenantLimit, TypeOK
  <2>2. CASE CheckTenantLimit(d)
    BY <1>1, <2>2, CheckedInOrder DEF CheckTenantLimit
  <2>3. CASE AskEndpointLimit(d)
    <3>1. job[d].on \in Processes
      BY <1>1, <2>3 DEF AskEndpointLimit, WorkersPlaced, at
    <3> QED BY <1>1, <2>3, <3>1, AskedInOrder DEF AskEndpointLimit, TypeOK, goto
  <2>4. CASE CheckEndpointLimit(d)
    <3>1. EndpointScope[d] \in Scopes
      BY <1>1, <2>4 DEF CheckEndpointLimit, WorkersPlaced, at, hasEndpointLimit
    <3> QED BY <1>1, <2>4, <3>1, CheckedInOrder DEF CheckEndpointLimit
  <2>5. CASE ScheduleRefused(d)
    <3>1. d \notin asking
      BY <2>5 DEF ScheduleRefused, InOrder, at
    <3> QED BY <1>1, <2>5, <3>1, OtherInOrder DEF ScheduleRefused, consume, requeue, TypeOK
  <2>6. ASSUME at(d, "send"), UNCHANGED limiterVars,
               \A o \in Deliveries : o # d => job'[o] = job[o]
        PROVE  InOrder'
    <3>1. d \notin asking
      BY <2>6 DEF InOrder, at
    <3> QED BY <1>1, <2>6, <3>1, OtherInOrder DEF limiterVars
  <2>7. CASE Succeed(d)
    BY <1>1, <2>6, <2>7 DEF Succeed, finish, TypeOK
  <2>8. ASSUME NEW status \in {404, 429, 503}, NEW header \in RetryAfter, Fail(d, status, header)
        PROVE  InOrder'
    BY <1>1, <2>6, <2>8 DEF Fail, finish, requeue, TypeOK
  <2> QED BY <1>2, <2>1, <2>2, <2>3, <2>4, <2>5, <2>7, <2>8 DEF Step
<1>3. CASE OpenWindow /\ UNCHANGED <<job, quiet, refusals>>
  BY <1>1, <1>3, OtherInOrder DEF OpenWindow
<1>4. CASE Wait
  BY <1>1, <1>4, TickedInOrder
<1>5. CASE UNCHANGED timingVars
  BY <1>1, <1>5, OtherInOrder DEF timingVars, limiterVars
<1> QED BY <1>2, <1>3, <1>4, <1>5 DEF Next

(* Deployed with a single dispatcher, and while its clock agrees with Redis's, *)
(* the deliveries meet an ideal token bucket without exception.                *)
THEOREM SoleIdeal ==
    ASSUME Assumptions, SoleProcess
    PROVE  Spec => Ideal!Init /\ [][OneClock => [Ideal!Next]_(Ideal!ibVars)]_limiterVars
<1>1. Init => InOrder
  BY DEF Init, LimiterInit, InOrder, present, Absent, Assumptions, LimiterAssumption
<1>2. TimingInv /\ InOrder /\ [Next]_timingVars => InOrder'
  BY OrderStep
<1>3. TimingInv /\ InOrder => ~SetBack
  BY NoneSetBack DEF TimingInv, TypeOK
<1>4. TimingInv /\ InOrder /\ [OneClock => SetBack \/ [Ideal!Next]_(Ideal!ibVars)]_limiterVars
        => [OneClock => [Ideal!Next]_(Ideal!ibVars)]_limiterVars
  BY <1>3
<1> QED BY <1>1, <1>2, <1>4, TimingInvariant, TimingIdeal, PTL DEF Spec, OneClockIdeal

-----------------------------------------------------------------------------
(* Refusals in a row, with one clock.  s grants a token to a reading n ticks   *)
(* from now.                                                                   *)
readyIn(s, n) == tokensAt(s, n) >= Second

(* How far the next reading of d will lie ahead, or lies, at least.            *)
pause(d) == IF at(d, "refused") THEN answer[d].delay
            ELSE IF at(d, "waiting") THEN job[d].due ELSE reading[d]

tenantReady(d) == readyIn(TenantScope, pause(d))
endpointReady(d) == hasEndpointLimit(d) => readyIn(EndpointScope[d], pause(d))

(* A delivery that has been refused waits for at least one of its limits, and  *)
(* the longer it has been refused the fewer can refuse it.                     *)
FewRefusals(d) ==
    refusals[d] >= 1 =>
        /\ job[d].pc \in {"waiting", "refused", "tenant"} =>
              \/ tenantReady(d) /\ endpointReady(d)
              \/ endpointReady(d) /\ refusals[d] <= 2
              \/ tenantReady(d) /\ refusals[d] <= 1
        /\ job[d].pc \in {"granted", "endpoint"} => endpointReady(d) \/ refusals[d] <= 1
        /\ refusals[d] <= 3

RefusalsInv == TimingInv /\ (OneClock => \A d \in Deliveries : FewRefusals(d))

LEMMA TimingFacts ==
    ASSUME Assumptions, RefusalsInv
    PROVE  /\ LimiterAssumption /\ OneClockInv /\ TimingInv /\ TypeOK /\ LimiterTypeOK
           /\ Deliveries = Requests /\ TenantScope \in Scopes /\ Spread \in Nat /\ Second \in Nat
           /\ Latency \in Nat
           /\ job \in [Deliveries -> [pc : JobPcs, on : Processes \cup {Nobody},
                                      due : Nat, attempt : 1..MaxAttempts]]
           /\ answer \in [Requests -> [exceeded : BOOLEAN, delay : Nat]]
           /\ refusals \in [Deliveries -> Nat]
           /\ \A r \in Requests : reading[r] \in Int
           /\ \A d \in Deliveries : pause(d) \in Int
           /\ \A d \in Deliveries : hasEndpointLimit(d) => EndpointScope[d] \in Scopes \ {TenantScope}
<1>1. /\ LimiterAssumption /\ OneClockInv /\ TimingInv /\ TypeOK /\ LimiterTypeOK
      /\ Deliveries = Requests /\ TenantScope \in Scopes /\ Spread \in Nat /\ Second \in Nat
      /\ Latency \in Nat
      /\ \A d \in Deliveries : hasEndpointLimit(d) => EndpointScope[d] \in Scopes \ {TenantScope}
  BY Numbers
     DEF RefusalsInv, TimingInv, TypeOK, OneClockInv, Assumptions, LimiterAssumption,
         hasEndpointLimit
<1>2. /\ job \in [Deliveries -> [pc : JobPcs, on : Processes \cup {Nobody},
                                 due : Nat, attempt : 1..MaxAttempts]]
      /\ answer \in [Requests -> [exceeded : BOOLEAN, delay : Nat]]
      /\ refusals \in [Deliveries -> Nat]
      /\ \A r \in Requests : reading[r] \in Int
  BY <1>1 DEF TypeOK, LimiterTypeOK
<1>3. \A d \in Deliveries : pause(d) \in Int
  BY <1>1, <1>2 DEF pause
<1> QED BY <1>1, <1>2, <1>3

(* Products with a limit of at least one token a second.                       *)
LEMMA Burst == ASSUME LimiterAssumption, NEW s \in Scopes PROVE Full(s) >= Second
<1> DEFINE l == Limit[s]
<1>1. l \in Nat /\ 1 <= l /\ Second \in Nat /\ Full(s) = l * Second
  BY DEF LimiterAssumption, Full
<1> HIDE DEF l
<1>2. 1 * Second <= l * Second
  BY <1>1, Monotone
<1> QED BY <1>1, <1>2

(* What a later reading finds is no less.                                      *)
LEMMA Refilled ==
    ASSUME NEW full \in Nat, NEW t \in Nat, NEW l \in Nat, NEW i \in Int, NEW j \in Int, i <= j
    PROVE  least(full, t + most(0, i) * l) <= least(full, t + most(0, j) * l)
<1>1. most(0, i) <= most(0, j) /\ most(0, i) \in Int /\ most(0, j) \in Int
  OBVIOUS
<1>2. most(0, i) * l <= most(0, j) * l
  BY <1>1, Monotone
<1>3. most(0, i) * l \in Int /\ most(0, j) * l \in Int
  BY <1>1
<1> DEFINE x == most(0, i) * l
           y == most(0, j) * l
<1>4. x <= y /\ x \in Int /\ y \in Int
  BY <1>2, <1>3
<1> HIDE DEF x, y
<1>5. least(full, t + x) <= least(full, t + y)
  BY <1>4
<1> QED BY <1>5 DEF x, y

LEMMA ReadyLater ==
    ASSUME LimiterAssumption, LimiterTypeOK, NEW s \in Scopes, NEW m \in Int, NEW n \in Int,
           m <= n, readyIn(s, m)
    PROVE  readyIn(s, n)
<1>1. /\ Full(s) \in Nat /\ Limit[s] \in Nat /\ bucket[s].tokens \in Nat /\ Second \in Nat
      /\ sinceUpdate(s, m) \in Int /\ sinceUpdate(s, n) \in Int
      /\ sinceUpdate(s, m) <= sinceUpdate(s, n)
      /\ tokensAt(s, m) \in Int /\ tokensAt(s, n) \in Int
  <2>1. /\ sinceUpdate(s, m) = bucket[s].idle - bucket[s].ahead + m
        /\ tokensAt(s, m) \in 0..Full(s) /\ Full(s) \in Nat
        /\ Limit[s] \in Nat \ {0} /\ bucket[s].tokens \in Nat /\ Second \in Nat \ {0}
        /\ bucket[s].idle \in 0..Lifetime /\ bucket[s].ahead \in -Latency..Spread
    BY TokensTyped
  <2>2. sinceUpdate(s, n) = bucket[s].idle - bucket[s].ahead + n /\ tokensAt(s, n) \in 0..Full(s)
    BY TokensTyped
  <2>3. bucket[s].idle \in Int /\ bucket[s].ahead \in Int
    BY <2>1 DEF LimiterAssumption
  <2> QED BY <2>1, <2>2, <2>3
<1>2. tokensAt(s, m) <= tokensAt(s, n)
  <2>1. CASE present(s)
    <3>1. least(Full(s), bucket[s].tokens + most(0, sinceUpdate(s, m)) * Limit[s])
            <= least(Full(s), bucket[s].tokens + most(0, sinceUpdate(s, n)) * Limit[s])
      BY <1>1, Refilled
    <3> QED BY <2>1, <3>1 DEF tokensAt
  <2>2. CASE ~present(s)
    BY <1>1, <2>2 DEF tokensAt
  <2> QED BY <2>1, <2>2
<1>3. tokensAt(s, m) >= Second
  BY DEF readyIn
<1> QED BY <1>1, <1>2, <1>3 DEF readyIn

(* A tick brings every token a tick nearer, and a hash that expires is full.   *)
LEMMA ReadyTick ==
    ASSUME LimiterAssumption, LimiterTypeOK, Tick, NEW s \in Scopes,
           NEW m \in Int, NEW n \in Int, n <= m + 1, readyIn(s, n)
    PROVE  readyIn(s, m)'
<1> DEFINE b == bucket[s]
<1>1. /\ b.idle \in Int /\ b.ahead \in Int /\ b.tokens \in Nat /\ Lifetime \in Nat
      /\ b.idle <= Lifetime /\ Second \in Nat
  BY DEF LimiterTypeOK, LimiterAssumption
<1>2. readyIn(s, m + 1)
  BY ReadyLater
<1>3. CASE b.idle + 1 < Lifetime
  <2>1. bucket'[s] = [b EXCEPT !.idle = @ + 1]
    BY <1>3 DEF Tick
  <2>2. /\ bucket'[s].idle = b.idle + 1 /\ bucket'[s].ahead = b.ahead
        /\ bucket'[s].tokens = b.tokens
    BY <2>1 DEF LimiterTypeOK
  <2>3. present(s)' /\ present(s) /\ sinceUpdate(s, m)' = sinceUpdate(s, m + 1)
    BY <1>1, <1>3, <2>2 DEF present, sinceUpdate
  <2>4. tokensAt(s, m)' = tokensAt(s, m + 1)
    BY <2>2, <2>3 DEF tokensAt, Full
  <2> QED BY <1>2, <2>4 DEF readyIn
<1>4. CASE b.idle + 1 >= Lifetime
  <2>1. bucket'[s] = Absent
    BY <1>1, <1>4 DEF Tick
  <2>2. tokensAt(s, m)' = Full(s)
    BY <1>1, <2>1 DEF tokensAt, present, Absent, Full
  <2> QED BY <2>2, Burst DEF readyIn
<1> QED BY <1>1, <1>3, <1>4

(* What the limiter answers, and when it will answer otherwise.                *)
LEMMA ReadyTold ==
    ASSUME LimiterAssumption, OneClockInv, OneClock,
           NEW r \in Requests, NEW s \in Scopes, checkRateLimit(r, s)
    PROVE  /\ answer'[r].exceeded \in BOOLEAN /\ answer'[r].delay \in Nat
           /\ answer'[r].exceeded => ~readyIn(s, reading[r]) /\ readyIn(s, answer[r].delay)'
           /\ \A z \in Scopes, n \in Int : z # s => (readyIn(z, n)' <=> readyIn(z, n))
<1> DEFINE a == reading[r]
           tokens == tokensAt(s, a)
           allowed == tokens >= Second
           delay == IF allowed THEN 0 ELSE delayFor(s, tokens)
           l == Limit[s]
<1>1. /\ LimiterTypeOK /\ a \in Int /\ a <= 0 /\ Lifetime \in Nat \ {0}
  BY DEF OneClockInv, OneClock, Agree, LimiterTypeOK, LimiterAssumption
<1>2. /\ tokens \in Nat /\ Second \in Nat \ {0} /\ l \in Nat \ {0} /\ Full(s) \in Nat
      /\ Full(s) >= Second
  <2>1. tokensAt(s, a) \in 0..Full(s) /\ Full(s) \in Nat /\ Second \in Nat \ {0}
        /\ Limit[s] \in Nat \ {0}
    BY <1>1, TokensTyped
  <2> QED BY <2>1, Burst
<1>3. /\ answer' = [answer EXCEPT ![r] = [exceeded |-> ~allowed, delay |-> delay]]
      /\ bucket' = [bucket EXCEPT ![s] = [tokens |-> IF allowed THEN tokens - Second ELSE tokens,
                                          idle |-> 0, ahead |-> a]]
  BY DEF checkRateLimit
<1>4. /\ delay \in Nat
      /\ ~allowed => tokens + delay * l >= Second
  <2>1. CASE ~allowed
    <3>1. /\ delayFor(s, tokens) \in 1..Second
          /\ tokens + delayFor(s, tokens) * Limit[s] >= Second
      BY <1>2, <2>1, DelayTyped
    <3>2. delay = delayFor(s, tokens)
      BY <2>1
    <3> HIDE DEF delay, tokens
    <3> QED BY <3>1, <3>2, <1>2
  <2>2. CASE allowed
    BY <1>2, <2>2
  <2> QED BY <2>1, <2>2
<1>5. answer'[r] = [exceeded |-> ~allowed, delay |-> delay]
  <2>1. answer \in [Requests -> [exceeded : BOOLEAN, delay : Nat]]
    BY <1>1 DEF LimiterTypeOK
  <2> HIDE DEF tokens, delay, allowed
  <2> QED BY <1>3, <2>1
<1>6. answer'[r].exceeded = ~allowed /\ answer'[r].delay = delay
  <2> HIDE DEF tokens, delay, allowed
  <2> QED BY <1>5
<1>7. ASSUME ~allowed PROVE ~readyIn(s, a) /\ readyIn(s, answer[r].delay)'
  <2>1. ~readyIn(s, a)
    BY <1>7 DEF readyIn
  <2>2. bucket'[s] = [tokens |-> tokens, idle |-> 0, ahead |-> a]
    <3> HIDE DEF tokens
    <3> QED BY <1>1, <1>3, <1>7 DEF LimiterTypeOK
  <2>3. readyIn(s, answer[r].delay)'
          <=> least(Full(s), tokens + most(0, 0 - a + delay) * l) >= Second
    <3> HIDE DEF tokens, delay, a
    <3>1. /\ bucket'[s].idle = 0 /\ bucket'[s].ahead = a /\ bucket'[s].tokens = tokens
          /\ answer'[r].delay = delay /\ 0 < Lifetime
      BY <1>1, <1>6, <2>2
    <3> QED BY <3>1 DEF readyIn, tokensAt, present, sinceUpdate, Full
  <2>4. /\ most(0, 0 - a + delay) \in Int /\ delay \in Int
        /\ delay <= most(0, 0 - a + delay)
    <3> HIDE DEF tokens, delay, a
    <3> QED BY <1>1, <1>4
  <2>5. delay * l <= most(0, 0 - a + delay) * l /\ delay * l \in Int
        /\ most(0, 0 - a + delay) * l \in Int
    <3> DEFINE m == most(0, 0 - a + delay)
    <3>1. m \in Int /\ delay \in Int /\ delay <= m /\ l \in Nat
      BY <1>2, <2>4
    <3> HIDE DEF m, delay, l
    <3>2. delay * l <= m * l
      BY <3>1, Monotone
    <3> QED BY <3>1, <3>2 DEF m
  <2>6. least(Full(s), tokens + most(0, 0 - a + delay) * l) >= Second
    <3> DEFINE x == delay * l
               y == most(0, 0 - a + delay) * l
    <3>1. x <= y /\ x \in Int /\ y \in Int /\ tokens + x >= Second
      BY <1>4, <1>7, <2>5
    <3> HIDE DEF x, y, tokens
    <3>2. least(Full(s), tokens + y) >= Second
      BY <1>2, <3>1
    <3> QED BY <3>2 DEF y
  <2> QED BY <2>1, <2>3, <2>6
<1>8. ASSUME NEW z \in Scopes, NEW n \in Int, z # s PROVE readyIn(z, n)' <=> readyIn(z, n)
  <2>1. bucket'[z] = bucket[z]
    <3> HIDE DEF tokens, allowed
    <3> QED BY <1>1, <1>3, <1>8 DEF LimiterTypeOK
  <2> QED BY <2>1 DEF readyIn, tokensAt, present, sinceUpdate, Full
<1>9. answer'[r].exceeded \in BOOLEAN /\ answer'[r].delay \in Nat
  <2> HIDE DEF tokens, delay
  <2> QED BY <1>4, <1>6
<1> HIDE DEF tokens, delay
<1> QED BY <1>6, <1>7, <1>8, <1>9

(* Only the delivery that has asked may have been refused since.               *)
LEMMA Counted ==
    ASSUME Assumptions, RefusalsInv, OneClock, NEW d \in Deliveries, countRefusal(d),
           answer'[d].exceeded \in BOOLEAN
    PROVE  /\ \A o \in Deliveries : o # d => FewRefusals(o)'
           /\ answer'[d].exceeded => refusals'[d] = refusals[d] + 1
           /\ ~answer'[d].exceeded => refusals'[d] = refusals[d]
<1>1. refusals' = [o \in Deliveries |->
                      IF o # d \/ ~OneClock THEN 0
                      ELSE IF answer'[d].exceeded THEN refusals[d] + 1 ELSE refusals[d]]
  BY DEF countRefusal
<1>2. \A o \in Deliveries : o # d => refusals'[o] = 0
  BY <1>1
<1> QED BY <1>1, <1>2 DEF FewRefusals

(* A delivery that asks is due, so that what it waited for is there.           *)
LEMMA AskRefusals ==
    ASSUME Assumptions, RefusalsInv, OneClock, NEW d \in Deliveries,
           AskTenantLimit(d) \/ AskEndpointLimit(d)
    PROVE  \A o \in Deliveries : FewRefusals(o)'
<1> USE TimingFacts
<1>1. /\ UNCHANGED <<bucket, answer, refusals>>
      /\ reading' = [reading EXCEPT ![d] = 0]
  <2>1. CASE AskTenantLimit(d)
    BY <2>1 DEF AskTenantLimit, readClock, OneClock
  <2>2. CASE AskEndpointLimit(d)
    <3>1. job[d].on \in Processes
      BY <2>2 DEF AskEndpointLimit, at, TimingInv, WorkersPlaced
    <3> QED BY <2>2, <3>1 DEF AskEndpointLimit, readClock, OneClock
  <2> QED BY <2>1, <2>2
<1>2. \A o \in Deliveries : o # d => job'[o] = job[o] /\ reading'[o] = reading[o]
  <2>1. CASE AskTenantLimit(d)
    <3>1. PICK p \in Processes : job' = [job EXCEPT ![d].pc = "tenant", ![d].on = p, ![d].due = 0]
      BY <2>1 DEF AskTenantLimit
    <3> QED BY <1>1, <3>1
  <2>2. CASE AskEndpointLimit(d)
    BY <1>1, <2>2 DEF AskEndpointLimit, goto
  <2> QED BY <2>1, <2>2
<1>3. \/ job[d].pc = "waiting" /\ job[d].due <= 0 /\ job'[d].pc = "tenant"
      \/ job[d].pc = "granted" /\ job'[d].pc = "endpoint"
  <2>1. CASE AskTenantLimit(d)
    <3>1. PICK p \in Processes : job' = [job EXCEPT ![d].pc = "tenant", ![d].on = p, ![d].due = 0]
      BY <2>1 DEF AskTenantLimit
    <3>2. job'[d].pc = "tenant"
      BY <3>1
    <3>3. at(d, "waiting") /\ (\E o \in Processes : job[d].due <= offset[o])
      BY <2>1 DEF AskTenantLimit
    <3> QED BY <3>2, <3>3 DEF at, OneClock
  <2>2. CASE AskEndpointLimit(d)
    BY <2>2 DEF AskEndpointLimit, goto, at
  <2> QED BY <2>1, <2>2
<1>4. reading'[d] = 0
  BY <1>1 DEF LimiterTypeOK
<1>5. pause(d)' = 0
  BY <1>3, <1>4 DEF pause, at
<1>6. pause(d) <= 0
  <2>1. reading[d] <= 0
    BY DEF OneClockInv, Agree
  <2> QED BY <1>3, <2>1 DEF pause, at
<1>7. \A o \in Deliveries : pause(o)' \in Int /\ pause(o) <= pause(o)'
  <2>1. \A o \in Deliveries : o # d => pause(o)' = pause(o)
    BY <1>1, <1>2 DEF pause, at
  <2> QED BY <1>5, <1>6, <2>1
<1>8. \A s \in Scopes, o \in Deliveries : readyIn(s, pause(o)) => readyIn(s, pause(o)')
  BY <1>7, ReadyLater
<1>9. \A s \in Scopes, o \in Deliveries : readyIn(s, pause(o)') => readyIn(s, pause(o))'
  BY <1>1 DEF readyIn, tokensAt, present, sinceUpdate, Full
<1>10. \A o \in Deliveries : /\ tenantReady(o) => tenantReady(o)'
                             /\ endpointReady(o) => endpointReady(o)'
  BY <1>8, <1>9 DEF tenantReady, endpointReady, hasEndpointLimit
<1>11. ASSUME NEW o \in Deliveries PROVE FewRefusals(o)'
  <2>1. FewRefusals(o) /\ refusals'[o] = refusals[o]
    BY <1>1 DEF RefusalsInv
  <2>2. \/ job'[o].pc = job[o].pc
        \/ job[o].pc = "waiting" /\ job'[o].pc = "tenant"
        \/ job[o].pc = "granted" /\ job'[o].pc = "endpoint"
    BY <1>2, <1>3
  <2> QED BY <1>10, <2>1, <2>2 DEF FewRefusals
<1> QED BY <1>11

LEMMA TenantRefusals ==
    ASSUME Assumptions, RefusalsInv, OneClock, NEW d \in Deliveries, CheckTenantLimit(d)
    PROVE  \A o \in Deliveries : FewRefusals(o)'
<1> USE TimingFacts
<1> DEFINE pc == IF answer'[d].exceeded THEN "refused"
                 ELSE IF hasEndpointLimit(d) THEN "granted" ELSE "send"
<1>1. /\ checkRateLimit(d, TenantScope) /\ goto(d, pc) /\ job[d].pc = "tenant"
      /\ pause(d) = reading[d]
  BY DEF CheckTenantLimit, at, pause
<1>2. /\ answer'[d].exceeded \in BOOLEAN /\ answer'[d].delay \in Nat
      /\ answer'[d].exceeded => ~readyIn(TenantScope, reading[d])
                                /\ readyIn(TenantScope, answer[d].delay)'
      /\ \A z \in Scopes, n \in Int : z # TenantScope => (readyIn(z, n)' <=> readyIn(z, n))
  BY <1>1, ReadyTold
<1>3. /\ \A o \in Deliveries : o # d => FewRefusals(o)'
      /\ answer'[d].exceeded => refusals'[d] = refusals[d] + 1
      /\ ~answer'[d].exceeded => refusals'[d] = refusals[d]
  BY <1>2, Counted DEF CheckTenantLimit
<1>4. job'[d].pc = pc
  <2> HIDE DEF pc
  <2> QED BY <1>1 DEF goto
<1>5. pause(d) <= 0 /\ reading'[d] = 0
  <2>1. reading[d] <= 0
    BY DEF OneClockInv, Agree
  <2>2. reading' = [reading EXCEPT ![d] = 0]
    BY <1>1 DEF checkRateLimit
  <2> QED BY <1>1, <2>1, <2>2 DEF LimiterTypeOK
<1>6. FewRefusals(d) /\ refusals[d] \in Nat
  BY DEF RefusalsInv
<1>7. ASSUME NEW n \in Nat, endpointReady(d), hasEndpointLimit(d)
      PROVE  readyIn(EndpointScope[d], n)'
  <2>1. EndpointScope[d] \in Scopes \ {TenantScope} /\ readyIn(EndpointScope[d], pause(d))
    BY <1>7 DEF endpointReady
  <2>2. pause(d) <= n /\ n \in Int
    BY <1>5
  <2>3. readyIn(EndpointScope[d], n)
    BY <2>1, <2>2, ReadyLater
  <2> QED BY <1>2, <2>1, <2>2, <2>3
<1>8. CASE answer'[d].exceeded
  <2>1. pause(d)' = answer'[d].delay /\ job'[d].pc = "refused"
    BY <1>4, <1>8 DEF pause, at
  <2>2. tenantReady(d)'
    BY <1>2, <1>8, <2>1 DEF tenantReady
  <2>3. endpointReady(d) => endpointReady(d)'
    <3>1. ASSUME endpointReady(d), hasEndpointLimit(d)
          PROVE  readyIn(EndpointScope[d], pause(d))'
      <4>1. \A n \in Nat : readyIn(EndpointScope[d], n)'
        BY <1>7, <3>1
      <4>2. \A n \in Nat : n = answer'[d].delay
                => (readyIn(EndpointScope[d], n)' <=> readyIn(EndpointScope[d], answer[d].delay)')
        BY DEF readyIn, tokensAt, present, sinceUpdate
      <4>3. readyIn(EndpointScope[d], answer[d].delay)'
        BY <1>2, <4>1, <4>2
      <4> QED BY <2>1, <4>3 DEF readyIn, tokensAt, present, sinceUpdate
    <3> QED BY <3>1 DEF endpointReady, hasEndpointLimit
  <2>4. refusals[d] >= 1 => endpointReady(d) /\ refusals[d] <= 2
    <3>1. ~tenantReady(d)
      BY <1>1, <1>2, <1>8 DEF tenantReady
    <3> QED BY <1>1, <1>6, <3>1 DEF FewRefusals
  <2>5. refusals'[d] = refusals[d] + 1
    BY <1>3, <1>8
  <2>6. FewRefusals(d)'
    <3>1. CASE refusals[d] = 0
      BY <2>1, <2>2, <2>5, <3>1 DEF FewRefusals
    <3>2. CASE refusals[d] >= 1
      BY <1>6, <2>1, <2>2, <2>3, <2>4, <2>5, <3>2 DEF FewRefusals
    <3> QED BY <1>6, <3>1, <3>2
  <2> QED BY <1>3, <2>6
<1>9. CASE ~answer'[d].exceeded
  <2>1. refusals'[d] = refusals[d]
    BY <1>3, <1>9
  <2>2. CASE ~hasEndpointLimit(d)
    <3>1. job'[d].pc = "send"
      BY <1>4, <1>9, <2>2
    <3>2. FewRefusals(d)'
      BY <1>1, <1>6, <2>1, <3>1 DEF FewRefusals
    <3> QED BY <1>3, <3>2
  <2>3. CASE hasEndpointLimit(d)
    <3>1. job'[d].pc = "granted" /\ pause(d)' = 0
      BY <1>4, <1>5, <1>9, <2>3 DEF pause, at
    <3>2. endpointReady(d) => endpointReady(d)'
      <4>1. ASSUME endpointReady(d) PROVE readyIn(EndpointScope[d], 0)'
        BY <1>7, <2>3, <4>1
      <4> QED BY <3>1, <4>1 DEF endpointReady, hasEndpointLimit, readyIn, tokensAt, present, sinceUpdate
    <3>3. refusals[d] >= 1 => (endpointReady(d) \/ refusals[d] <= 1) /\ refusals[d] <= 3
      BY <1>1, <1>6 DEF FewRefusals
    <3>4. FewRefusals(d)'
      BY <1>6, <2>1, <3>1, <3>2, <3>3 DEF FewRefusals
    <3> QED BY <1>3, <3>4
  <2> QED BY <2>2, <2>3
<1> QED BY <1>2, <1>8, <1>9

LEMMA EndpointRefusals ==
    ASSUME Assumptions, RefusalsInv, OneClock, NEW d \in Deliveries, CheckEndpointLimit(d)
    PROVE  \A o \in Deliveries : FewRefusals(o)'
<1> USE TimingFacts
<1> DEFINE pc == IF answer'[d].exceeded THEN "refused" ELSE "send"
<1>1. /\ job[d].pc = "endpoint" /\ hasEndpointLimit(d) /\ EndpointScope[d] \in Scopes
      /\ checkRateLimit(d, EndpointScope[d]) /\ goto(d, pc) /\ pause(d) = reading[d]
  BY DEF CheckEndpointLimit, TimingInv, WorkersPlaced, at, pause
<1>2. /\ answer'[d].exceeded \in BOOLEAN /\ answer'[d].delay \in Nat
      /\ answer'[d].exceeded => ~readyIn(EndpointScope[d], reading[d])
                                /\ readyIn(EndpointScope[d], answer[d].delay)'
  BY <1>1, ReadyTold
<1>3. /\ \A o \in Deliveries : o # d => FewRefusals(o)'
      /\ answer'[d].exceeded => refusals'[d] = refusals[d] + 1
      /\ ~answer'[d].exceeded => refusals'[d] = refusals[d]
  BY <1>2, Counted DEF CheckEndpointLimit
<1>4. job'[d].pc = pc
  <2> HIDE DEF pc
  <2> QED BY <1>1 DEF goto
<1>5. FewRefusals(d) /\ refusals[d] \in Nat
  BY DEF RefusalsInv
<1>6. CASE answer'[d].exceeded
  <2>1. pause(d)' = answer'[d].delay /\ job'[d].pc = "refused" /\ refusals'[d] = refusals[d] + 1
    BY <1>3, <1>4, <1>6 DEF pause, at
  <2>2. endpointReady(d)'
    BY <1>2, <1>6, <2>1 DEF endpointReady
  <2>3. refusals[d] <= 1
    <3>1. ~endpointReady(d)
      BY <1>1, <1>2, <1>6 DEF endpointReady
    <3> QED BY <1>1, <1>5, <3>1 DEF FewRefusals
  <2>4. FewRefusals(d)'
    BY <1>5, <2>1, <2>2, <2>3 DEF FewRefusals
  <2> QED BY <1>3, <2>4
<1>7. CASE ~answer'[d].exceeded
  <2>1. job'[d].pc = "send" /\ refusals'[d] = refusals[d]
    BY <1>3, <1>4, <1>7
  <2>2. FewRefusals(d)'
    BY <1>1, <1>5, <2>1 DEF FewRefusals
  <2> QED BY <1>3, <2>2
<1> QED BY <1>2, <1>6, <1>7

(* Who schedules a refused delivery says when it asks again.                   *)
LEMMA ScheduleRefusals ==
    ASSUME Assumptions, RefusalsInv, OneClock, NEW d \in Deliveries, ScheduleRefused(d)
    PROVE  \A o \in Deliveries : FewRefusals(o)'
<1> USE TimingFacts
<1>1. /\ job[d].pc = "refused" /\ job[d].on \in Processes /\ answer[d].delay \in Nat
      /\ ahead(d) = 0 /\ UNCHANGED <<bucket, reading, refusals>>
  BY DEF ScheduleRefused, at, RefusalsInv, TimingInv, WorkersPlaced, OneClock, ahead, consume
<1>2. /\ job' = [job EXCEPT ![d] = [pc |-> "waiting", on |-> Nobody, due |-> answer[d].delay,
                                    attempt |-> job[d].attempt]]
      /\ answer' = [answer EXCEPT ![d] = NoAnswer]
  <2>1. requeue(d, ahead(d) + answer[d].delay, job[d].attempt)
        /\ answer' = [answer EXCEPT ![d] = NoAnswer]
    BY DEF ScheduleRefused, consume
  <2>2. ahead(d) + answer[d].delay = answer[d].delay
    BY <1>1
  <2> QED BY <2>1, <2>2 DEF requeue
<1>3. job'[d].pc = "waiting" /\ job'[d].due = answer[d].delay
  BY <1>2
<1>4. \A o \in Deliveries : o # d => job'[o] = job[o] /\ answer'[o] = answer[o]
  BY <1>2
<1>5. \A o \in Deliveries : pause(o)' = pause(o)
  <2>1. pause(d)' = pause(d)
    BY <1>1, <1>3 DEF pause, at
  <2>2. \A o \in Deliveries : o # d => pause(o)' = pause(o)
    BY <1>1, <1>4 DEF pause, at
  <2> QED BY <2>1, <2>2
<1>6. \A o \in Deliveries : (tenantReady(o)' <=> tenantReady(o))
                            /\ (endpointReady(o)' <=> endpointReady(o))
  BY <1>1, <1>5 DEF tenantReady, endpointReady, hasEndpointLimit, readyIn, tokensAt, present,
                    sinceUpdate, Full
<1>7. \A o \in Deliveries : job'[o].pc = job[o].pc \/ o = d
  BY <1>4
<1> QED BY <1>1, <1>3, <1>6, <1>7 DEF RefusalsInv, FewRefusals, at

(* After an answer of the receiver the count begins anew.                      *)
LEMMA AnsweredRefusals ==
    ASSUME Assumptions, RefusalsInv, OneClock, NEW d \in Deliveries, UNCHANGED limiterVars,
           \/ finish(d)
           \/ \E due, attempt : requeue(d, due, attempt) /\ refusals' = [refusals EXCEPT ![d] = 0]
    PROVE  \A o \in Deliveries : FewRefusals(o)'
<1> USE TimingFacts
<1>1. refusals' = [refusals EXCEPT ![d] = 0]
  BY DEF finish
<1>2. \A o \in Deliveries : o # d => job'[o] = job[o]
  BY DEF finish, requeue
<1>3. FewRefusals(d)'
  BY <1>1 DEF FewRefusals
<1>4. ASSUME NEW o \in Deliveries, o # d PROVE FewRefusals(o)'
  <2>1. pause(o)' = pause(o) /\ job'[o] = job[o] /\ refusals'[o] = refusals[o]
    BY <1>1, <1>2, <1>4 DEF pause, at, limiterVars
  <2>2. (tenantReady(o)' <=> tenantReady(o)) /\ (endpointReady(o)' <=> endpointReady(o))
    BY <2>1 DEF tenantReady, endpointReady, hasEndpointLimit, readyIn, tokensAt, present,
                sinceUpdate, Full, limiterVars
  <2> QED BY <2>1, <2>2 DEF RefusalsInv, FewRefusals, at
<1> QED BY <1>3, <1>4

LEMMA WaitRefusals ==
    ASSUME Assumptions, RefusalsInv, OneClock, Wait
    PROVE  \A o \in Deliveries : FewRefusals(o)'
<1> USE TimingFacts
<1> SUFFICES ASSUME NEW d \in Deliveries PROVE FewRefusals(d)'
  OBVIOUS
<1>1. /\ Tick /\ answer' = answer /\ refusals' = refusals
      /\ job' = [o \in Deliveries |-> [job[o] EXCEPT !.due = most(0, @ - 1)]]
      /\ reading' = [r \in Requests |-> IF r \in asking THEN reading[r] - 1 ELSE reading[r]]
  BY DEF Wait, Tick
<1>2. job'[d].pc = job[d].pc /\ job'[d].due = most(0, job[d].due - 1)
  <2> DEFINE due == most(0, job[d].due - 1)
  <2>1. job'[d] = [job[d] EXCEPT !.due = due]
    BY <1>1
  <2> HIDE DEF due
  <2>2. job'[d].pc = job[d].pc /\ job'[d].due = due
    BY <2>1
  <2> QED BY <2>2 DEF due
<1>3. reading'[d] \in Int /\ reading[d] - 1 <= reading'[d]
  BY <1>1
<1>4. pause(d) \in Int /\ pause(d)' \in Int /\ pause(d) <= pause(d)' + 1
  <2>1. job[d].due \in Nat /\ answer[d].delay \in Nat
    OBVIOUS
  <2>2. CASE at(d, "refused")
    <3>1. pause(d) = answer[d].delay /\ pause(d)' = answer[d].delay
      BY <1>1, <1>2, <2>2 DEF pause, at
    <3> QED BY <2>1, <3>1
  <2>3. CASE at(d, "waiting")
    <3>1. pause(d) = job[d].due /\ pause(d)' = most(0, job[d].due - 1)
      BY <1>2, <2>3 DEF pause, at
    <3> QED BY <2>1, <3>1
  <2>4. CASE ~at(d, "refused") /\ ~at(d, "waiting")
    <3>1. pause(d) = reading[d] /\ pause(d)' = reading'[d]
      BY <1>2, <2>4 DEF pause, at
    <3> QED BY <1>3, <3>1
  <2> QED BY <2>2, <2>3, <2>4
<1>5. ASSUME NEW s \in Scopes, readyIn(s, pause(d)) PROVE readyIn(s, pause(d))'
  <2>1. \A m \in Int, n \in Int : n <= m + 1 /\ readyIn(s, n) => readyIn(s, m)'
    BY <1>1, ReadyTick
  <2>2. \A m \in Int : m = pause(d)' => readyIn(s, m)'
    BY <1>4, <1>5, <2>1
  <2>3. \A m \in Int : m = pause(d)' => (readyIn(s, m)' <=> readyIn(s, pause(d))')
    BY DEF readyIn, tokensAt, present, sinceUpdate
  <2> QED BY <1>4, <2>2, <2>3
<1>6. tenantReady(d) => tenantReady(d)'
  BY <1>5 DEF tenantReady
<1>7. endpointReady(d) => endpointReady(d)'
  BY <1>5 DEF endpointReady, hasEndpointLimit
<1>8. FewRefusals(d)
  BY DEF RefusalsInv
<1> QED BY <1>1, <1>2, <1>6, <1>7, <1>8 DEF FewRefusals

LEMMA RefusalsInit == Assumptions /\ Init => RefusalsInv
BY TimingInit DEF Init, RefusalsInv, FewRefusals

LEMMA RefusalsStep == Assumptions /\ RefusalsInv /\ [Next]_timingVars => RefusalsInv'
<1> SUFFICES ASSUME Assumptions, RefusalsInv, [Next]_timingVars PROVE RefusalsInv'
  OBVIOUS
<1>1. TimingInv'
  BY TimingStep DEF RefusalsInv
<1>2. OneClock' <=> OneClock
  <2>1. [LimiterNext]_limiterVars
    BY StepsAreLimiters DEF RefusalsInv
  <2>2. offset' = offset
    BY <2>1 DEF LimiterNext, limiterVars, Tick, OpenWindow, consume, readClock, checkRateLimit
  <2> QED BY <2>2 DEF OneClock
<1> SUFFICES ASSUME OneClock PROVE \A o \in Deliveries : FewRefusals(o)'
  BY <1>1, <1>2 DEF RefusalsInv
<1>3. ASSUME NEW d \in Deliveries, Step(d) PROVE \A o \in Deliveries : FewRefusals(o)'
  <2>1. CASE AskTenantLimit(d) \/ AskEndpointLimit(d)
    BY <2>1, AskRefusals
  <2>2. CASE CheckTenantLimit(d)
    BY <2>2, TenantRefusals
  <2>3. CASE CheckEndpointLimit(d)
    BY <2>3, EndpointRefusals
  <2>4. CASE ScheduleRefused(d)
    BY <2>4, ScheduleRefusals
  <2>5. CASE Succeed(d)
    BY <2>5, AnsweredRefusals DEF Succeed
  <2>6. ASSUME NEW status \in {404, 429, 503}, NEW header \in RetryAfter, Fail(d, status, header)
        PROVE  \A o \in Deliveries : FewRefusals(o)'
    BY <2>6, AnsweredRefusals DEF Fail
  <2> QED BY <1>3, <2>2, <2>3, <2>4, <2>5, <2>6, <2>1 DEF Step
<1>4. CASE Wait
  BY <1>4, WaitRefusals
<1>5. CASE (OpenWindow /\ UNCHANGED <<job, quiet, refusals>>) \/ UNCHANGED timingVars
  <2>1. UNCHANGED <<bucket, answer, reading, job, refusals>>
    BY <1>5 DEF OpenWindow, timingVars, limiterVars
  <2> QED BY <2>1 DEF RefusalsInv, FewRefusals, at, tenantReady, endpointReady, hasEndpointLimit,
                      pause, readyIn, tokensAt, present, sinceUpdate, Full
<1> QED BY <1>3, <1>4, <1>5 DEF Next

(* RefusalsStop: with one clock, a delivery nobody competes with is refused    *)
(* three times in a row at most, whatever the limits and however long it waits *)
(* between: the delay it is told suffices for the limit that refused it, and   *)
(* the endpoint's token waits for it while it asks the tenant's limit again.   *)
THEOREM RefusalsStop == ASSUME Assumptions PROVE Spec => []RefusalsEnd
<1>1. RefusalsInv => RefusalsEnd
  <2> SUFFICES ASSUME RefusalsInv, OneClock, NEW d \in Deliveries PROVE refusals[d] <= 3
    BY DEF RefusalsEnd
  <2>1. FewRefusals(d) /\ refusals[d] \in Nat
    BY DEF RefusalsInv, TimingInv, TypeOK
  <2> QED BY <2>1 DEF FewRefusals
<1> QED BY <1>1, RefusalsInit, RefusalsStep, PTL DEF Spec
=============================================================================
