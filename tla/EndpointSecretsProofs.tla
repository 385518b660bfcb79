------------------------- MODULE EndpointSecretsProofs -------------------------
(* Receivers can verify what workers sign, across rotations: for any overlap   *)
(* and ages that satisfy SecretsAssumption, any rotations, sends and secrets.  *)
EXTENDS EndpointSecrets, TLAPS

RotationRecords ==
    [pc : {"idle", "read", "write", "answer"}, secret : Secrets \cup {None},
     left : 0..Overlap, current : Secrets \cup {None}, age : 0..MaxPause]

SendRecords ==
    [pc : {"idle", "sign", "sent"}, row : EndpointRow,
     by : SUBSET Secrets, age : 0..(MaxAge + MaxPause)]

Underway == {r \in Rotations : rotation[r].pc # "idle"}

(* How much of the overlap a rotation under way has used up.                   *)
Used(r) ==
    IF rotation[r].pc = "read" THEN rotation[r].age
    ELSE IF rotation[r].pc = "write" THEN MaxPause + rotation[r].age
    ELSE 2 * MaxPause + rotation[r].age

RotationsTimed == \A r \in Underway : rotation[r].left >= Overlap - Used(r)

(* A secret that is generated is not yet that of the endpoint, nor another's.  *)
Distinct ==
    /\ \A r, o \in Underway : rotation[r].secret = rotation[o].secret => r = o
    /\ \A r \in Underway :
          /\ rotation[r].secret # None
          /\ rotation[r].pc \in {"read", "write"} => rotation[r].secret # endpoint.secret
          /\ rotation[r].pc = "write" => rotation[r].current \notin {None, rotation[r].secret}

SendsTimed == \A s \in Sends :
    /\ send[s].pc = "sign" => send[s].age <= MaxPause
    /\ send[s].pc = "sent" => send[s].age <= MaxAge

Typed == TypeOK /\ RotationsTimed /\ Distinct /\ SendsTimed

LEMMA Types ==
    TypeOK <=> /\ endpoint \in EndpointRow /\ endpoint.previous # endpoint.secret
               /\ rotation \in [Rotations -> RotationRecords]
               /\ send \in [Sends -> SendRecords]
               /\ receiver \in [Secrets -> 0..Forever]
               /\ told \subseteq [secret : Secrets, left : 0..Overlap]
               /\ lapses \subseteq {"overlapping", "unread", "lost"}
  BY DEF TypeOK, RotationRecords, SendRecords

LEMMA RotationRecord ==
    ASSUME Typed, NEW r \in Rotations
    PROVE  /\ rotation[r].pc \in {"idle", "read", "write", "answer"}
           /\ rotation[r].secret \in Secrets \cup {None} /\ rotation[r].current \in Secrets \cup {None}
           /\ rotation[r].left \in 0..Overlap /\ rotation[r].age \in 0..MaxPause
           /\ rotation[r] \in RotationRecords
  BY DEF Typed, TypeOK, RotationRecords

LEMMA RotationUpdates ==
    ASSUME NEW rec \in RotationRecords, NEW a \in 0..MaxPause
    PROVE  /\ [rec EXCEPT !.pc = "answer", !.age = a] \in RotationRecords
           /\ \A x \in Secrets : [rec EXCEPT !.pc = "write", !.current = x, !.age = a] \in RotationRecords
           /\ \A n \in 0..Overlap : [rec EXCEPT !.age = a, !.left = n] \in RotationRecords
  BY DEF RotationRecords

LEMMA SendUpdates ==
    ASSUME NEW rec \in SendRecords, NEW a \in 0..(MaxAge + MaxPause), NEW e \in EndpointRow
    PROVE  /\ [rec EXCEPT !.age = a] \in SendRecords
           /\ [rec EXCEPT !.age = a, !.row = e] \in SendRecords
  BY DEF SendRecords

LEMMA SendRecord ==
    ASSUME Typed, NEW s \in Sends
    PROVE  /\ send[s].pc \in {"idle", "sign", "sent"} /\ send[s].by \in SUBSET Secrets
           /\ send[s].row \in EndpointRow /\ send[s].age \in 0..(MaxAge + MaxPause)
           /\ send[s] \in SendRecords
  BY DEF Typed, TypeOK, SendRecords

LEMMA EndpointRecord ==
    ASSUME Typed
    PROVE  /\ endpoint \in EndpointRow /\ endpoint.secret \in Secrets
           /\ endpoint.previous \in Secrets \cup {None} /\ endpoint.left \in -1..Overlap
           /\ endpoint.previous # endpoint.secret
  BY DEF Typed, TypeOK, EndpointRow

LEMMA Numbers ==
    /\ MaxPause \in Nat /\ MaxAge \in Nat /\ Overlap \in Nat /\ LastSecret \in Nat \ {0}
    /\ Overlap > MaxAge + 3 * MaxPause
    /\ 1 \in Secrets /\ None \notin Secrets /\ Secrets \subseteq Nat /\ Forever = Overlap + 1
  BY SecretsAssumption DEF Secrets, None, Forever

(* Less than three pauses of a rotation are over, so it has time left.         *)
LEMMA LeftOver ==
    ASSUME Typed, NEW r \in Rotations, rotation[r].pc # "idle"
    PROVE  /\ Used(r) \in Nat /\ rotation[r].left >= Overlap - Used(r)
           /\ Used(r) <= 3 * MaxPause
           /\ rotation[r].pc # "answer" => Used(r) <= 2 * MaxPause
           /\ rotation[r].left > 0
           /\ rotation[r].age < MaxPause => rotation[r].left > 1
<1>1. rotation[r].left >= Overlap - Used(r)
  BY DEF Typed, RotationsTimed, Underway
<1>2. rotation[r].age \in 0..MaxPause /\ rotation[r].left \in 0..Overlap
  BY RotationRecord
<1>3. /\ Used(r) \in Nat /\ Used(r) <= 3 * MaxPause
      /\ rotation[r].age < MaxPause => Used(r) < 3 * MaxPause
  BY <1>2, Numbers DEF Used
<1>4. rotation[r].pc # "answer" => Used(r) <= 2 * MaxPause
  BY <1>2, Numbers, RotationRecord DEF Used
<1> QED BY <1>1, <1>2, <1>3, <1>4, Numbers

LEMMA InitTyped == Init => Typed
<1> SUFFICES ASSUME Init PROVE Typed
  OBVIOUS
<1> USE Numbers DEF Init, FirstRow, NoRotation, NoSend
<1>1. FirstRow \in EndpointRow
  BY DEF EndpointRow, None
<1>2. TypeOK
  <2>1. receiver \in [Secrets -> 0..Forever]
    OBVIOUS
  <2>2. send \in [Sends -> [pc : {"idle", "sign", "sent"}, row : EndpointRow,
                            by : SUBSET Secrets, age : 0..(MaxAge + MaxPause)]]
    BY <1>1
  <2>3. rotation \in [Rotations ->
          [pc : {"idle", "read", "write", "answer"}, secret : Secrets \cup {None},
           left : 0..Overlap, current : Secrets \cup {None}, age : 0..MaxPause]]
    OBVIOUS
  <2> QED BY <1>1, <2>1, <2>2, <2>3 DEF TypeOK, None
<1> QED BY <1>2 DEF Typed, RotationsTimed, Distinct, SendsTimed, Underway

LEMMA BeginTyped ==
    ASSUME Typed, NEW r \in Rotations, BeginRotation(r)
    PROVE  Typed'
<1> USE Numbers
<1>1. PICK new \in Secrets :
          /\ \A x \in generated : x < new
          /\ rotation' = [rotation EXCEPT ![r] =
                [pc |-> "read", secret |-> new, left |-> Overlap, current |-> None, age |-> 0]]
  BY DEF BeginRotation
<1>2. TypeOK'
  BY <1>1 DEF Typed, TypeOK, BeginRotation
<1>3. RotationsTimed'
  BY <1>1, RotationRecord DEF Typed, TypeOK, RotationsTimed, Underway, Used
<1>4. Distinct'
  <2>1. ASSUME NEW o \in Rotations PROVE rotation[o].secret # new
    <3>1. rotation[o].secret \in generated
      BY DEF generated
    <3> QED BY <1>1, <3>1
  <2>2. new # endpoint.secret
    <3>1. endpoint.secret \in generated
      BY DEF generated
    <3> QED BY <1>1, <3>1
  <2> QED BY <1>1, <2>1, <2>2, RotationRecord DEF Typed, TypeOK, Distinct, Underway, BeginRotation, None
<1>5. SendsTimed'
  BY DEF Typed, SendsTimed, BeginRotation
<1> QED BY <1>2, <1>3, <1>4, <1>5 DEF Typed

LEMMA ReadTyped ==
    ASSUME Typed, NEW r \in Rotations, ReadSecret(r)
    PROVE  Typed'
<1> USE Numbers DEF ReadSecret
<1>1. TypeOK'
  <2>1. 0 \in 0..MaxPause
    OBVIOUS
  <2>2. [rotation[r] EXCEPT !.pc = "write", !.current = endpoint.secret, !.age = 0]
           \in RotationRecords
    BY <2>1, EndpointRecord, RotationRecord, RotationUpdates
  <2>3. rotation' = [rotation EXCEPT ![r] =
           [@ EXCEPT !.pc = "write", !.current = endpoint.secret, !.age = 0]]
    BY DEF Typed, TypeOK
  <2>4. rotation' \in [Rotations -> RotationRecords]
    BY <2>2, <2>3, Types DEF Typed
  <2> QED BY <2>4, Types DEF Typed, TypeOK, RotationRecords
<1>2. RotationsTimed'
  BY RotationRecord, LeftOver DEF Typed, TypeOK, RotationsTimed, Underway, Used
<1>3. Distinct'
  BY EndpointRecord DEF Typed, TypeOK, Distinct, Underway, None
<1>4. SendsTimed'
  BY DEF Typed, SendsTimed
<1> QED BY <1>1, <1>2, <1>3, <1>4 DEF Typed

LEMMA WriteTyped ==
    ASSUME Typed, NEW r \in Rotations, WriteSecret(r)
    PROVE  Typed'
<1> USE Numbers DEF WriteSecret, rotated
<1>1. TypeOK'
  <2>1. endpoint' \in EndpointRow /\ endpoint'.previous # endpoint'.secret
    BY RotationRecord DEF Typed, Distinct, Underway, EndpointRow
  <2>2. 0 \in 0..MaxPause
    OBVIOUS
  <2>3. [rotation[r] EXCEPT !.pc = "answer", !.age = 0] \in RotationRecords
    BY <2>2, RotationRecord, RotationUpdates
  <2>4. rotation' = [rotation EXCEPT ![r] = [@ EXCEPT !.pc = "answer", !.age = 0]]
    BY DEF Typed, TypeOK
  <2>5. rotation' \in [Rotations -> RotationRecords]
    BY <2>3, <2>4, Types DEF Typed
  <2> QED BY <2>1, <2>5, Types DEF Typed, TypeOK, RotationRecords
<1>2. RotationsTimed'
  BY RotationRecord, LeftOver DEF Typed, TypeOK, RotationsTimed, Underway, Used
<1>3. Distinct'
  BY EndpointRecord DEF Typed, TypeOK, Distinct, Underway, None
<1>4. SendsTimed'
  BY DEF Typed, SendsTimed
<1> QED BY <1>1, <1>2, <1>3, <1>4 DEF Typed

(* A rotation ends, with an answer or without.                                 *)
Ends(r) == rotation[r].pc # "idle" /\ rotation' = [rotation EXCEPT ![r] = NoRotation]

LEMMA EndsTyped ==
    ASSUME Typed, NEW r \in Rotations, Ends(r), UNCHANGED <<endpoint, send, receiver>>,
           told' \subseteq [secret : Secrets, left : 0..Overlap],
           lapses' \subseteq {"overlapping", "unread", "lost"}
    PROVE  Typed'
<1> USE Numbers DEF Ends, NoRotation
<1>1. TypeOK'
  BY DEF Typed, TypeOK
<1>2. RotationsTimed' /\ Distinct'
  BY RotationRecord DEF Typed, TypeOK, RotationsTimed, Underway, Used, Distinct
<1>3. SendsTimed'
  BY DEF Typed, SendsTimed
<1> QED BY <1>1, <1>2, <1>3 DEF Typed

LEMMA AnswerTyped ==
    ASSUME Typed, NEW r \in Rotations, AnswerRotation(r) \/ LoseAnswer(r)
    PROVE  Typed'
<1>1. CASE AnswerRotation(r)
  <2>1. rotation[r].secret \in Secrets
    BY <1>1, RotationRecord DEF AnswerRotation, Typed, Distinct, Underway
  <2>2. told' \subseteq [secret : Secrets, left : 0..Overlap]
    BY <1>1, <2>1, RotationRecord DEF AnswerRotation, Typed, TypeOK
  <2>3. Ends(r) /\ UNCHANGED <<endpoint, send, receiver, lapses>>
    BY <1>1 DEF AnswerRotation, Ends
  <2> QED BY <2>2, <2>3, EndsTyped DEF Typed, TypeOK
<1>2. CASE LoseAnswer(r)
  BY <1>2, EndsTyped DEF LoseAnswer, Ends, Typed, TypeOK
<1> QED BY <1>1, <1>2

LEMMA SendTyped ==
    ASSUME Typed, NEW s \in Sends, Claim(s) \/ Sign(s) \/ EndSend(s)
    PROVE  Typed'
<1> USE Numbers DEF Claim, Sign, EndSend, NoSend
<1>1. FirstRow \in EndpointRow
  BY DEF FirstRow, EndpointRow, None
<1>2. signatures(send[s].row) \in SUBSET Secrets
  BY SendRecord DEF signatures, EndpointRow
<1>3. TypeOK'
  <2>1. 0 \in 0..(MaxAge + MaxPause)
    OBVIOUS
  <2>2. PICK new \in SendRecords : send' = [send EXCEPT ![s] = new]
    BY <1>1, <1>2, EndpointRecord, SendRecord DEF SendRecords
  <2>3. send' \in [Sends -> SendRecords]
    BY <2>2, Types DEF Typed
  <2> QED BY <2>3, Types DEF Typed, TypeOK, SendRecords
<1>4. RotationsTimed' /\ Distinct'
  BY DEF Typed, RotationsTimed, Distinct, Underway, Used
<1>5. SendsTimed'
  BY DEF Typed, TypeOK, SendsTimed
<1> QED BY <1>3, <1>4, <1>5 DEF Typed

LEMMA CleanupTyped == ASSUME Typed, cleanupExpiredEndpointSecrets PROVE Typed'
<1> USE Numbers DEF cleanupExpiredEndpointSecrets
<1>1. TypeOK'
  <2>1. 0 \in -1..Overlap
    OBVIOUS
  <2>2. endpoint' \in EndpointRow
    BY <2>1, EndpointRecord DEF EndpointRow
  <2>3. endpoint'.previous # endpoint'.secret
    BY EndpointRecord DEF EndpointRow
  <2> QED BY <2>2, <2>3 DEF Typed, TypeOK
<1> QED BY <1>1 DEF Typed, RotationsTimed, Distinct, Underway, Used, SendsTimed, TypeOK, EndpointRow

LEMMA AdoptTyped == ASSUME Typed, NEW t \in told, Adopt(t) PROVE Typed'
<1> USE Numbers DEF Adopt
<1>1. TypeOK'
  BY DEF Typed, TypeOK
<1> QED BY <1>1 DEF Typed, RotationsTimed, Distinct, Underway, Used, SendsTimed

LEMMA AgedTyped ==
    ASSUME NEW row \in EndpointRow
    PROVE  /\ aged(row) \in EndpointRow
           /\ aged(row).secret = row.secret /\ aged(row).previous = row.previous
           /\ row.previous # None /\ row.left >= 0 => aged(row).left = row.left - 1
  BY Numbers DEF aged, EndpointRow

LEMMA FirstRowTyped == FirstRow \in EndpointRow
<1>1. 0 \in -1..Overlap
  BY Numbers
<1> QED BY <1>1, Numbers DEF FirstRow, EndpointRow

(* What a tick does to each clock, record by record.                           *)
LEMMA LaterRotation ==
    ASSUME NEW t \in RotationRecords, t.pc # "idle" => t.age < MaxPause /\ t.left > 0
    PROVE  LET u == laterRotation(t) IN
           /\ u \in RotationRecords
           /\ u.pc = t.pc /\ u.secret = t.secret /\ u.current = t.current
           /\ t.pc # "idle" => u.age = t.age + 1 /\ u.left = t.left - 1
<1>1. CASE t.pc = "idle"
  BY <1>1 DEF laterRotation
<1>2. CASE t.pc # "idle"
  <2>1. t.age + 1 \in 0..MaxPause /\ t.left - 1 \in 0..Overlap
    BY <1>2, Numbers DEF RotationRecords
  <2>2. laterRotation(t) = [t EXCEPT !.age = t.age + 1, !.left = t.left - 1]
    BY <1>2 DEF laterRotation
  <2>3. [t EXCEPT !.age = t.age + 1, !.left = t.left - 1] \in RotationRecords
    BY <2>1, RotationUpdates
  <2>4. LET u == laterRotation(t) IN
           /\ u.pc = t.pc /\ u.secret = t.secret /\ u.current = t.current
           /\ u.age = t.age + 1 /\ u.left = t.left - 1
    BY <2>2 DEF RotationRecords
  <2> QED BY <2>2, <2>3, <2>4
<1> QED BY <1>1, <1>2

LEMMA LaterSend ==
    ASSUME NEW t \in SendRecords, t.pc = "sign" => t.age < MaxPause
    PROVE  LET u == laterSend(t) IN
           /\ u \in SendRecords
           /\ \/ t.pc = "idle" /\ u = t
              \/ /\ t.pc = "sign" /\ u.pc = "sign" /\ u.age = t.age + 1 /\ u.row = aged(t.row)
              \/ /\ t.pc = "sent" /\ t.age < MaxAge /\ u.pc = "sent"
                 /\ u.age = t.age + 1 /\ u.by = t.by
              \/ t.pc = "sent" /\ u.pc = "idle"
<1>1. CASE t.pc = "idle"
  BY <1>1 DEF laterSend
<1>2. CASE t.pc = "sign"
  <2>1. t.age + 1 \in 0..(MaxAge + MaxPause)
    BY <1>2, Numbers DEF SendRecords
  <2>2. t.row \in EndpointRow /\ aged(t.row) \in EndpointRow
    BY AgedTyped DEF SendRecords
  <2>3. laterSend(t) = [t EXCEPT !.age = t.age + 1, !.row = aged(t.row)]
    BY <1>2 DEF laterSend
  <2>4. laterSend(t) \in SendRecords
    BY <2>1, <2>2, <2>3, SendUpdates, ZenonT(40)
  <2>5. /\ laterSend(t).pc = "sign" /\ laterSend(t).age = t.age + 1
        /\ laterSend(t).row = aged(t.row)
    BY <1>2, <2>3 DEF SendRecords
  <2> QED BY <1>2, <2>4, <2>5
<1>3. CASE t.pc = "sent" /\ t.age < MaxAge
  <2>1. t.age + 1 \in 0..(MaxAge + MaxPause)
    BY <1>3, Numbers DEF SendRecords
  <2>2. laterSend(t) = [t EXCEPT !.age = t.age + 1]
    BY <1>3 DEF laterSend
  <2>3. laterSend(t) \in SendRecords
    BY <2>1, <2>2, FirstRowTyped, SendUpdates
  <2> QED BY <1>3, <2>1, <2>2, <2>3 DEF SendRecords
<1>4. CASE t.pc = "sent" /\ ~(t.age < MaxAge)
  <2>1. laterSend(t) = NoSend
    BY <1>4 DEF laterSend
  <2>2. 0 \in 0..(MaxAge + MaxPause)
    BY Numbers
  <2>3. NoSend \in SendRecords
    BY <2>2, FirstRowTyped DEF NoSend, SendRecords
  <2> QED BY <1>4, <2>1, <2>3 DEF NoSend
<1>5. t.pc \in {"idle", "sign", "sent"}
  BY DEF SendRecords
<1> QED BY <1>1, <1>2, <1>3, <1>4, <1>5

LEMMA TickedRotation ==
    ASSUME Typed, Tick, NEW r \in Rotations
    PROVE  /\ rotation'[r] \in RotationRecords
           /\ rotation'[r].pc = rotation[r].pc /\ rotation'[r].secret = rotation[r].secret
           /\ rotation'[r].current = rotation[r].current
           /\ rotation[r].pc # "idle" =>
                 /\ rotation[r].age < MaxPause /\ rotation'[r].age = rotation[r].age + 1
                 /\ rotation'[r].left = rotation[r].left - 1 /\ rotation'[r].left > 0
<1>1. rotation[r] \in RotationRecords /\ (rotation[r].pc # "idle" => rotation[r].left > 0)
  BY RotationRecord, LeftOver
<1>2. rotation'[r] = laterRotation(rotation[r]) /\ (rotation[r].pc # "idle" => rotation[r].age < MaxPause)
  BY DEF Tick
<1>3. rotation[r].pc # "idle" => rotation[r].left > 1 /\ rotation[r].left \in Int
  BY <1>2, LeftOver, RotationRecord, Numbers
<1> QED BY <1>1, <1>2, <1>3, LaterRotation

LEMMA TickedSend ==
    ASSUME Typed, Tick, NEW s \in Sends
    PROVE  /\ send'[s] \in SendRecords
           /\ \/ send[s].pc = "idle" /\ send'[s] = send[s]
              \/ /\ send[s].pc = "sign" /\ send[s].age < MaxPause /\ send'[s].pc = "sign"
                 /\ send'[s].age = send[s].age + 1 /\ send'[s].row = aged(send[s].row)
              \/ /\ send[s].pc = "sent" /\ send[s].age < MaxAge /\ send'[s].pc = "sent"
                 /\ send'[s].age = send[s].age + 1 /\ send'[s].by = send[s].by
              \/ send[s].pc = "sent" /\ send'[s].pc = "idle"
<1>1. send[s] \in SendRecords
  BY SendRecord
<1>2. send'[s] = laterSend(send[s]) /\ (send[s].pc = "sign" => send[s].age < MaxPause)
  BY DEF Tick
<1> QED BY <1>1, <1>2, LaterSend

LEMMA TickedRest ==
    ASSUME Typed, Tick
    PROVE  /\ endpoint' = aged(endpoint) /\ lapses' = lapses
           /\ \A x \in Secrets :
                 /\ receiver'[x] \in 0..Forever /\ receiver[x] \in 0..Forever
                 /\ receiver'[x] = IF receiver[x] = 0 \/ receiver[x] = Forever THEN receiver[x]
                                   ELSE receiver[x] - 1
           /\ \A t \in told :
                 /\ t.left > 1 /\ t.left - 1 \in 0..Overlap /\ t.secret \in Secrets
                 /\ [secret |-> t.secret, left |-> t.left - 1] \in told'
           /\ \A u \in told' : \E t \in told : u.secret = t.secret /\ u.left = t.left - 1
           /\ told' \subseteq [secret : Secrets, left : 0..Overlap]
<1>1. ASSUME NEW x \in Secrets
      PROVE  /\ receiver'[x] \in 0..Forever /\ receiver[x] \in 0..Forever
             /\ receiver'[x] = IF receiver[x] = 0 \/ receiver[x] = Forever THEN receiver[x]
                               ELSE receiver[x] - 1
  <2>1. receiver'[x] = IF receiver[x] \in {0, Forever} THEN receiver[x] ELSE receiver[x] - 1
    BY DEF Tick
  <2>2. receiver[x] \in 0..Forever
    BY DEF Typed, TypeOK
  <2> QED BY <2>1, <2>2, Numbers
<1>2. ASSUME NEW t \in told
      PROVE  /\ t.left > 1 /\ t.left - 1 \in 0..Overlap /\ t.secret \in Secrets
             /\ [t EXCEPT !.left = t.left - 1] = [secret |-> t.secret, left |-> t.left - 1]
  <2>1. t \in [secret : Secrets, left : 0..Overlap] /\ t.left > 1
    BY DEF Typed, TypeOK, Tick
  <2>2. t.left - 1 \in 0..Overlap /\ t.secret \in Secrets
    BY <2>1, Numbers
  <2>3. [t EXCEPT !.left = t.left - 1] = [secret |-> t.secret, left |-> t.left - 1]
    BY <2>1
  <2> QED BY <2>1, <2>2, <2>3
<1>3. told' = {[t EXCEPT !.left = t.left - 1] : t \in told}
  BY DEF Tick
<1>4. told' = {[secret |-> t.secret, left |-> t.left - 1] : t \in told}
  BY <1>2, <1>3
<1> QED BY <1>1, <1>2, <1>4 DEF Tick

LEMMA TickTyped == ASSUME Typed, Tick PROVE Typed'
<1> USE Numbers
<1>1. endpoint' \in EndpointRow /\ endpoint'.previous # endpoint'.secret
  BY TickedRest, AgedTyped, EndpointRecord
<1>2. rotation' \in [Rotations -> RotationRecords]
  <2>1. rotation' = [r \in Rotations |-> laterRotation(rotation[r])]
    BY DEF Tick
  <2>2. \A r \in Rotations : laterRotation(rotation[r]) \in RotationRecords
    BY <2>1, TickedRotation
  <2> QED BY <2>1, <2>2
<1>3. send' \in [Sends -> SendRecords]
  <2>1. send' = [s \in Sends |-> laterSend(send[s])]
    BY DEF Tick
  <2>2. \A s \in Sends : laterSend(send[s]) \in SendRecords
    BY <2>1, TickedSend
  <2> QED BY <2>1, <2>2
<1>4. receiver' \in [Secrets -> 0..Forever]
  <2>1. DOMAIN receiver' = Secrets /\ receiver' = [x \in DOMAIN receiver' |-> receiver'[x]]
    BY DEF Tick
  <2> QED BY <2>1, TickedRest
<1>5. TypeOK'
  BY <1>1, <1>2, <1>3, <1>4, TickedRest
     DEF TypeOK, Typed, RotationRecords, SendRecords
<1>6. RotationsTimed'
  <2>1. ASSUME NEW r \in Rotations, rotation'[r].pc # "idle"
        PROVE  rotation'[r].left >= Overlap - Used(r)'
    <3>1. /\ rotation'[r].pc = rotation[r].pc /\ rotation[r].pc # "idle"
          /\ rotation'[r].age = rotation[r].age + 1 /\ rotation'[r].left = rotation[r].left - 1
      BY <2>1, TickedRotation
    <3>2. Used(r)' = Used(r) + 1
      BY <3>1, RotationRecord DEF Used
    <3> QED BY <3>1, <3>2, LeftOver, RotationRecord
  <2> QED BY <2>1 DEF RotationsTimed, Underway
<1>7. Distinct'
  <2>1. \A r \in Rotations : /\ rotation'[r].pc = rotation[r].pc
                            /\ rotation'[r].secret = rotation[r].secret
                            /\ rotation'[r].current = rotation[r].current
    BY TickedRotation
  <2>2. endpoint'.secret = endpoint.secret
    BY TickedRest, AgedTyped, EndpointRecord
  <2> QED BY <2>1, <2>2 DEF Typed, Distinct, Underway
<1>8. SendsTimed'
  <2>1. ASSUME NEW s \in Sends
        PROVE  /\ send'[s].pc = "sign" => send'[s].age <= MaxPause
               /\ send'[s].pc = "sent" => send'[s].age <= MaxAge
    BY TickedSend, SendRecord
  <2> QED BY <2>1 DEF SendsTimed
<1> QED BY <1>5, <1>6, <1>7, <1>8 DEF Typed

LEMMA TypedStep == Typed /\ [Next]_vars => Typed'
<1> SUFFICES ASSUME Typed, [Next]_vars PROVE Typed'
  OBVIOUS
<1>1. CASE UNCHANGED vars
  BY <1>1 DEF vars, Typed, TypeOK, RotationsTimed, Distinct, Underway, Used, SendsTimed
<1> QED
  BY <1>1, BeginTyped, ReadTyped, WriteTyped, AnswerTyped, SendTyped, AdoptTyped, CleanupTyped,
     TickTyped DEF Next

-----------------------------------------------------------------------------
(* The rotations that will be told or have been, with what is left for the old *)
(* secret; pending are those whose secret signs already.                       *)
Answering == {r \in Rotations : rotation[r].pc = "answer"}
asTold(r) == [secret |-> rotation[r].secret, left |-> rotation[r].left]
Pending == told \cup {asTold(r) : r \in Answering}
Upcoming == told \cup {asTold(r) : r \in Underway}

OneAtATime ==
    /\ \A r, o \in Underway : r = o
    /\ \A r \in Underway : rotation[r].pc = "write" => rotation[r].current = endpoint.secret

(* The rotations that have been told amount to the endpoint as it is, or, when *)
(* an answer is still to come, as it was before.                               *)
Latest == IF Answering = {} THEN endpoint.secret ELSE endpoint.previous

LatestTold ==
    /\ \A t \in told : /\ t.secret = Latest \/ \E u \in told : u.secret = Latest /\ u.secret > t.secret
                       /\ \A r \in Underway : rotation[r].secret > t.secret
    /\ \A r \in Answering : /\ endpoint.secret = rotation[r].secret /\ endpoint.previous # None
                            /\ endpoint.left = rotation[r].left

LatestInv == lapses \cap {"overlapping", "lost"} = {} => OneAtATime /\ LatestTold

LEMMA ToldRecord ==
    ASSUME Typed, NEW t \in told
    PROVE  t.secret \in Secrets /\ t.left \in 0..Overlap /\ t = [secret |-> t.secret, left |-> t.left]
  BY DEF Typed, TypeOK

LEMMA InitLatest == Init => LatestInv
  BY DEF Init, LatestInv, OneAtATime, LatestTold, Underway, Answering, NoRotation

LEMMA BeginLatest ==
    ASSUME Typed, LatestInv, NEW r \in Rotations, BeginRotation(r)
    PROVE  LatestInv'
<1> SUFFICES ASSUME lapses' \cap {"overlapping", "lost"} = {} PROVE OneAtATime' /\ LatestTold'
  BY DEF LatestInv
<1>1. /\ lapses \cap {"overlapping", "lost"} = {} /\ \A o \in Rotations : rotation[o].pc = "idle"
      /\ UNCHANGED <<endpoint, told>>
  BY DEF BeginRotation
<1>2. PICK new \in Secrets :
          /\ \A x \in generated : x < new
          /\ rotation' = [rotation EXCEPT ![r] =
                [pc |-> "read", secret |-> new, left |-> Overlap, current |-> None, age |-> 0]]
  BY DEF BeginRotation
<1>3. Underway' = {r} /\ Answering = {} /\ Answering' = {} /\ rotation'[r].pc = "read"
      /\ rotation'[r].secret = new
  BY <1>1, <1>2 DEF Typed, TypeOK, Underway, Answering
<1>4. OneAtATime'
  BY <1>3 DEF OneAtATime
<1>5. ASSUME NEW t \in told PROVE new > t.secret
  <2>1. t.secret \in generated
    BY DEF generated
  <2> QED BY <1>2, <2>1, ToldRecord, Numbers
<1>6. Latest' = Latest
  BY <1>1, <1>3 DEF Latest
<1> QED BY <1>1, <1>3, <1>4, <1>5, <1>6 DEF LatestInv, LatestTold

LEMMA ReadLatest ==
    ASSUME Typed, LatestInv, NEW r \in Rotations, ReadSecret(r)
    PROVE  LatestInv'
<1> SUFFICES ASSUME lapses' \cap {"overlapping", "lost"} = {} PROVE OneAtATime' /\ LatestTold'
  BY DEF LatestInv
<1>1. OneAtATime /\ LatestTold /\ UNCHANGED <<endpoint, told>>
  BY DEF ReadSecret, LatestInv
<1>2. /\ \A o \in Rotations : rotation'[o].secret = rotation[o].secret /\ (o # r => rotation'[o] = rotation[o])
      /\ rotation[r].pc = "read" /\ rotation'[r].pc = "write" /\ rotation'[r].current = endpoint.secret
  BY DEF ReadSecret, Typed, TypeOK
<1>3. Underway' = Underway /\ Answering' = Answering
  BY <1>2 DEF Underway, Answering
<1>4. OneAtATime'
  BY <1>1, <1>2, <1>3 DEF OneAtATime, Underway
<1>5. r \notin Answering /\ Latest' = Latest
  BY <1>1, <1>2, <1>3 DEF Latest, Answering
<1> QED BY <1>1, <1>2, <1>3, <1>4, <1>5 DEF LatestTold, Underway, Answering

LEMMA WriteLatest ==
    ASSUME Typed, LatestInv, NEW r \in Rotations, WriteSecret(r)
    PROVE  LatestInv'
<1> SUFFICES ASSUME lapses' \cap {"overlapping", "lost"} = {} PROVE OneAtATime' /\ LatestTold'
  BY DEF LatestInv
<1>1. OneAtATime /\ LatestTold /\ told' = told /\ endpoint' = rotated(r)
  BY DEF WriteSecret, LatestInv
<1>2. /\ \A o \in Rotations : rotation'[o].secret = rotation[o].secret /\ (o # r => rotation'[o] = rotation[o])
      /\ rotation[r].pc = "write" /\ rotation'[r].pc = "answer"
      /\ rotation'[r].left = rotation[r].left
  BY DEF WriteSecret, Typed, TypeOK
<1>3. Underway = {r} /\ Underway' = {r} /\ Answering = {} /\ Answering' = {r}
  BY <1>1, <1>2 DEF OneAtATime, Underway, Answering
<1>4. rotation[r].current = endpoint.secret
  BY <1>1, <1>2, <1>3 DEF OneAtATime
<1>5. endpoint'.secret = rotation[r].secret /\ endpoint'.previous = endpoint.secret
      /\ endpoint'.left = rotation[r].left
  BY <1>1, <1>4 DEF rotated
<1>6. Latest' = Latest
  BY <1>3, <1>5 DEF Latest
<1>7. OneAtATime'
  BY <1>2, <1>3 DEF OneAtATime
<1> QED BY <1>1, <1>2, <1>3, <1>5, <1>6, <1>7, EndpointRecord, Numbers DEF LatestTold

LEMMA AnswerLatest ==
    ASSUME Typed, LatestInv, NEW r \in Rotations, AnswerRotation(r)
    PROVE  LatestInv'
<1> SUFFICES ASSUME lapses' \cap {"overlapping", "lost"} = {} PROVE OneAtATime' /\ LatestTold'
  BY DEF LatestInv
<1>1. /\ OneAtATime /\ LatestTold /\ told' = told \cup {asTold(r)} /\ endpoint' = endpoint
      /\ rotation[r].pc = "answer"
  BY DEF AnswerRotation, LatestInv, asTold
<1>2. rotation'[r].pc = "idle" /\ \A o \in Rotations : o # r => rotation'[o] = rotation[o]
  BY DEF AnswerRotation, NoRotation, Typed, TypeOK
<1>3. Underway = {r} /\ Underway' = {} /\ Answering = {r} /\ Answering' = {}
  BY <1>1, <1>2 DEF OneAtATime, Underway, Answering
<1>4. OneAtATime'
  BY <1>3 DEF OneAtATime
<1>5. Latest' = endpoint.secret /\ asTold(r).secret = endpoint.secret /\ asTold(r) \in told'
  BY <1>1, <1>3 DEF Latest, LatestTold, asTold
<1>6. \A t \in told : endpoint.secret > t.secret
  BY <1>1, <1>3 DEF LatestTold
<1> QED BY <1>1, <1>3, <1>4, <1>5, <1>6 DEF LatestTold

LEMMA AdoptLatest ==
    ASSUME Typed, LatestInv, NEW t \in told, Adopt(t)
    PROVE  LatestInv'
<1> SUFFICES ASSUME lapses' \cap {"overlapping", "lost"} = {} PROVE OneAtATime' /\ LatestTold'
  BY DEF LatestInv
<1>1. /\ OneAtATime /\ LatestTold /\ told' = {u \in told : u.secret > t.secret}
      /\ UNCHANGED <<endpoint, rotation>>
  BY DEF Adopt, LatestInv
<1>2. Underway' = Underway /\ Answering' = Answering /\ Latest' = Latest
  BY <1>1 DEF Underway, Answering, Latest
<1>3. ASSUME NEW v \in told', v.secret # Latest
      PROVE  \E u \in told' : u.secret = Latest /\ u.secret > v.secret
  <2>1. PICK u \in told : u.secret = Latest /\ u.secret > v.secret
    BY <1>1, <1>3 DEF LatestTold
  <2>2. v \in told /\ v.secret > t.secret
    BY <1>1
  <2>3. u.secret > t.secret
    BY <2>1, <2>2, ToldRecord, Numbers
  <2> QED BY <1>1, <2>1, <2>3
<1> QED BY <1>1, <1>2, <1>3 DEF OneAtATime, LatestTold

LEMMA CleanupLatest == ASSUME Typed, LatestInv, cleanupExpiredEndpointSecrets PROVE LatestInv'
<1> SUFFICES ASSUME lapses' \cap {"overlapping", "lost"} = {} PROVE OneAtATime' /\ LatestTold'
  BY DEF LatestInv
<1>1. /\ OneAtATime /\ LatestTold /\ UNCHANGED <<rotation, told>> /\ endpoint.left < 0
  BY DEF cleanupExpiredEndpointSecrets, expired, LatestInv
<1>2. endpoint'.secret = endpoint.secret
  BY DEF cleanupExpiredEndpointSecrets, Typed, TypeOK, EndpointRow
<1>3. Answering = {}
  BY <1>1, LeftOver, RotationRecord, EndpointRecord DEF Answering, LatestTold
<1>4. Underway' = Underway /\ Answering' = {} /\ Latest' = Latest
  BY <1>1, <1>2, <1>3 DEF Underway, Answering, Latest
<1> QED BY <1>1, <1>2, <1>4 DEF OneAtATime, LatestTold

LEMMA TickLatest == ASSUME Typed, LatestInv, Tick PROVE LatestInv'
<1> SUFFICES ASSUME lapses' \cap {"overlapping", "lost"} = {} PROVE OneAtATime' /\ LatestTold'
  BY DEF LatestInv
<1>1. OneAtATime /\ LatestTold
  BY TickedRest DEF LatestInv
<1>2. endpoint'.secret = endpoint.secret /\ endpoint'.previous = endpoint.previous
  BY TickedRest, AgedTyped, EndpointRecord
<1>3. \A o \in Rotations : /\ rotation'[o].secret = rotation[o].secret /\ rotation'[o].pc = rotation[o].pc
                          /\ rotation'[o].current = rotation[o].current
  BY TickedRotation
<1>4. Underway' = Underway /\ Answering' = Answering /\ Latest' = Latest
  BY <1>2, <1>3 DEF Underway, Answering, Latest
<1>5. ASSUME NEW r \in Answering PROVE endpoint'.left = rotation'[r].left
  <2>1. /\ r \in Rotations /\ rotation[r].pc # "idle" /\ endpoint.previous # None
        /\ endpoint.left = rotation[r].left
    BY <1>1 DEF Answering, LatestTold
  <2>2. endpoint'.left = endpoint.left - 1
    BY <2>1, TickedRest, AgedTyped, EndpointRecord, LeftOver, RotationRecord
  <2> QED BY <2>1, <2>2, TickedRotation
<1>6. ASSUME NEW v \in told'
      PROVE  /\ v.secret = Latest \/ \E u \in told' : u.secret = Latest /\ u.secret > v.secret
             /\ \A r \in Underway : rotation[r].secret > v.secret
  <2>1. PICK t \in told : v.secret = t.secret
    BY TickedRest
  <2>2. ASSUME NEW u \in told PROVE \E w \in told' : w.secret = u.secret
    BY TickedRest
  <2> QED BY <1>1, <2>1, <2>2 DEF LatestTold
<1>7. OneAtATime'
  BY <1>1, <1>2, <1>3, <1>4 DEF OneAtATime, Underway
<1>8. Underway \subseteq Rotations /\ Answering \subseteq Rotations
  BY DEF Underway, Answering
<1> QED BY <1>1, <1>2, <1>3, <1>4, <1>5, <1>6, <1>7, <1>8 DEF LatestTold

LEMMA LatestStep == Typed /\ LatestInv /\ [Next]_vars => LatestInv'
<1> SUFFICES ASSUME Typed, LatestInv, [Next]_vars PROVE LatestInv'
  OBVIOUS
<1> USE DEF LatestInv, OneAtATime, LatestTold, Underway, Answering, Latest
<1>1. CASE UNCHANGED vars
  BY <1>1 DEF vars
<1>2. ASSUME NEW r \in Rotations, LoseAnswer(r) PROVE LatestInv'
  BY <1>2 DEF LoseAnswer
<1>3. ASSUME NEW s \in Sends, Claim(s) \/ Sign(s) \/ EndSend(s) PROVE LatestInv'
  BY <1>3 DEF Claim, Sign, EndSend
<1> HIDE DEF LatestInv
<1> QED
  BY <1>1, <1>2, <1>3, BeginLatest, ReadLatest, WriteLatest, AnswerLatest, AdoptLatest,
     CleanupLatest, TickLatest DEF Next

-----------------------------------------------------------------------------
(* The receiver keeps up: it has the endpoint's secret for ever, or one is     *)
(* pending and the receiver has its predecessor.                               *)
ReceiverInStep ==
    /\ told # {} => Underway = {}
    /\ \A t, u \in told : t = u
    /\ Pending = {} => receiver[endpoint.secret] = Forever
    /\ \A t \in Pending :
          /\ t.secret = endpoint.secret /\ t.left = endpoint.left /\ t.left > 0
          /\ endpoint.previous # None /\ receiver[endpoint.previous] = Forever

(* How long a send may still take to arrive.                                   *)
need(s) == IF send[s].pc = "sign" THEN MaxPause - send[s].age + MaxAge ELSE MaxAge - send[s].age

(* A secret is accepted for long enough, whatever is adopted in the meantime.  *)
Lasts(x, n) ==
    receiver[x] > n /\ \A t \in Upcoming : t.secret # x => t.left > n

(* Or the new secret and its predecessor sign until the new one is adopted.    *)
HandsOver(S) == \E t \in Pending : t.secret \in S /\ \E x \in S : receiver[x] = Forever

SendCovered(s) ==
    /\ send[s].pc = "sign" =>
          \/ Lasts(send[s].row.secret, need(s))
          \/ \E t \in Pending : /\ t.secret = send[s].row.secret /\ t.left = send[s].row.left
                                /\ send[s].row.previous # None
                                /\ receiver[send[s].row.previous] = Forever
    /\ send[s].pc = "sent" =>
          \/ \E x \in send[s].by : Lasts(x, need(s))
          \/ HandsOver(send[s].by)

VerifiableInv == lapses = {} => ReceiverInStep /\ \A s \in Sends : SendCovered(s)

SecretsInv == Typed /\ LatestInv /\ VerifiableInv

LEMMA Need ==
    ASSUME Typed, NEW s \in Sends, send[s].pc # "idle"
    PROVE  need(s) \in Int /\ need(s) >= 0 /\ need(s) <= MaxPause + MaxAge
<1>1. send[s].pc \in {"sign", "sent"} /\ send[s].age \in Nat
  BY SendRecord, Numbers
<1>2. /\ send[s].pc = "sign" => send[s].age <= MaxPause
      /\ send[s].pc = "sent" => send[s].age <= MaxAge
  BY DEF Typed, SendsTimed
<1> QED BY <1>1, <1>2, Numbers DEF need

LEMMA UpcomingRecord ==
    ASSUME Typed, NEW t \in Upcoming
    PROVE  t.left \in 0..Overlap
  BY ToldRecord, RotationRecord DEF Upcoming, asTold, Underway

LEMMA PendingSubset == Pending \subseteq Upcoming
  BY DEF Pending, Upcoming, Answering, Underway

(* What other steps leave of the cover of a send: nothing gets worse but for   *)
(* rotations with enough of the overlap left.                                  *)
LEMMA StillCovered ==
    ASSUME Typed, NEW s \in Sends, SendCovered(s), send'[s] = send[s], receiver' = receiver,
           Pending \subseteq Pending',
           \A t \in Upcoming' : t \in Upcoming \/ (t.left \in Int /\ t.left > MaxPause + MaxAge)
    PROVE  SendCovered(s)'
<1>1. need(s)' = need(s)
  BY DEF need
<1>2. ASSUME NEW x, Lasts(x, need(s)), send[s].pc # "idle" PROVE Lasts(x, need(s))'
  <2>1. ASSUME NEW t \in Upcoming', t.secret # x PROVE t.left > need(s)
    <3>1. CASE t \in Upcoming
      BY <1>2, <2>1, <3>1 DEF Lasts
    <3>2. CASE t.left \in Int /\ t.left > MaxPause + MaxAge
      BY <1>2, <3>2, Need, Numbers
    <3> QED BY <3>1, <3>2
  <2>2. receiver'[x] > need(s)
    BY <1>2 DEF Lasts
  <2> QED BY <1>1, <2>1, <2>2 DEF Lasts
<1>3. HandsOver(send[s].by) => HandsOver(send[s].by)'
  BY DEF HandsOver
<1> QED BY <1>1, <1>2, <1>3 DEF SendCovered

LEMMA SameCover ==
    ASSUME Typed, NEW s \in Sends, SendCovered(s), send'[s] = send[s], receiver' = receiver,
           Pending \subseteq Pending', Upcoming' \subseteq Upcoming
    PROVE  SendCovered(s)'
<1>1. \A t \in Upcoming' : t \in Upcoming \/ (t.left \in Int /\ t.left > MaxPause + MaxAge)
  OBVIOUS
<1> QED BY <1>1, StillCovered

LEMMA InitVerifiable == Init => VerifiableInv
<1> SUFFICES ASSUME Init PROVE ReceiverInStep /\ \A s \in Sends : SendCovered(s)
  BY DEF VerifiableInv
<1>1. Pending = {} /\ Underway = {} /\ told = {}
  BY DEF Init, Pending, Answering, Underway, NoRotation
<1>2. receiver[endpoint.secret] = Forever
  BY Numbers DEF Init, FirstRow
<1> QED BY <1>1, <1>2 DEF Init, ReceiverInStep, SendCovered, NoSend

(* With nothing under way and nothing to adopt, the owner begins a rotation.   *)
LEMMA BeginVerifiable ==
    ASSUME SecretsInv, NEW r \in Rotations, BeginRotation(r)
    PROVE  VerifiableInv'
<1> SUFFICES ASSUME lapses' = {} PROVE ReceiverInStep' /\ \A s \in Sends : SendCovered(s)'
  BY DEF VerifiableInv
<1>1. /\ lapses = {} /\ told = {} /\ Underway = {}
      /\ UNCHANGED <<endpoint, send, receiver, told>>
  BY DEF BeginRotation, Underway
<1>2. PICK new \in Secrets : rotation' = [rotation EXCEPT ![r] =
          [pc |-> "read", secret |-> new, left |-> Overlap, current |-> None, age |-> 0]]
  BY DEF BeginRotation
<1>3. /\ Underway' = {r} /\ Answering' = {} /\ Answering = {}
      /\ asTold(r)'.left = Overlap /\ Pending = {} /\ Pending' = {}
  BY <1>1, <1>2 DEF SecretsInv, Typed, TypeOK, Underway, Answering, Pending, asTold
<1>4. Upcoming' = {asTold(r)'}
  BY <1>1, <1>3 DEF Upcoming, asTold
<1>5. \A t \in Upcoming' : t.left \in Int /\ t.left > MaxPause + MaxAge
  BY <1>3, <1>4, Numbers
<1>6. \A s \in Sends : SendCovered(s)'
  BY <1>1, <1>3, <1>5, StillCovered DEF SecretsInv, VerifiableInv
<1> QED BY <1>1, <1>3, <1>6 DEF SecretsInv, VerifiableInv, ReceiverInStep

(* Steps of a rotation that change no endpoint row.                            *)
LEMMA ReadVerifiable ==
    ASSUME SecretsInv, NEW r \in Rotations, ReadSecret(r)
    PROVE  VerifiableInv'
<1> SUFFICES ASSUME lapses' = {} PROVE ReceiverInStep' /\ \A s \in Sends : SendCovered(s)'
  BY DEF VerifiableInv
<1>1. /\ lapses = {} /\ UNCHANGED <<endpoint, send, receiver, told>>
  BY DEF ReadSecret
<1>2. /\ \A o \in Rotations : /\ rotation'[o].secret = rotation[o].secret /\ rotation'[o].left = rotation[o].left
                             /\ (o # r => rotation'[o] = rotation[o])
      /\ rotation[r].pc = "read" /\ rotation'[r].pc = "write"
  BY DEF ReadSecret, SecretsInv, Typed, TypeOK
<1>3. Underway' = Underway /\ Answering' = Answering /\ \A o \in Rotations : asTold(o)' = asTold(o)
  BY <1>2 DEF Underway, Answering, asTold
<1>4. Upcoming' = Upcoming /\ Pending' = Pending
  BY <1>1, <1>3 DEF Upcoming, Pending, Underway, Answering
<1>5. \A s \in Sends : SendCovered(s)'
  BY <1>1, <1>4, SameCover DEF SecretsInv, VerifiableInv
<1> QED BY <1>1, <1>3, <1>4, <1>5 DEF SecretsInv, VerifiableInv, ReceiverInStep

LEMMA WriteVerifiable ==
    ASSUME SecretsInv, NEW r \in Rotations, WriteSecret(r)
    PROVE  VerifiableInv'
<1> SUFFICES ASSUME lapses' = {} PROVE ReceiverInStep' /\ \A s \in Sends : SendCovered(s)'
  BY DEF VerifiableInv
<1>1. /\ lapses = {} /\ UNCHANGED <<send, receiver, told>> /\ endpoint' = rotated(r)
      /\ Typed /\ ReceiverInStep /\ OneAtATime
  BY DEF WriteSecret, SecretsInv, VerifiableInv, LatestInv
<1>2. /\ \A o \in Rotations : /\ rotation'[o].secret = rotation[o].secret /\ rotation'[o].left = rotation[o].left
                             /\ (o # r => rotation'[o] = rotation[o])
      /\ rotation[r].pc = "write" /\ rotation'[r].pc = "answer"
  BY DEF WriteSecret, SecretsInv, Typed, TypeOK
<1>3. Underway = {r} /\ Underway' = {r} /\ Answering = {} /\ Answering' = {r}
  BY <1>1, <1>2 DEF OneAtATime, Underway, Answering
<1>4. told = {} /\ asTold(r)' = asTold(r)
  BY <1>1, <1>2, <1>3 DEF ReceiverInStep, asTold
<1>5. Pending = {} /\ Pending' = {asTold(r)} /\ Upcoming' = {asTold(r)} /\ Upcoming = {asTold(r)}
  BY <1>1, <1>3, <1>4 DEF Pending, Upcoming
<1>6. /\ endpoint'.secret = rotation[r].secret /\ endpoint'.previous = endpoint.secret
      /\ endpoint'.left = rotation[r].left
  BY <1>1, <1>2, <1>3 DEF OneAtATime, rotated
<1>7. /\ rotation[r].left > 0 /\ endpoint.secret # None
      /\ receiver[endpoint.secret] = Forever
  BY <1>1, <1>2, <1>5, LeftOver, EndpointRecord, Numbers DEF ReceiverInStep
<1>8. ReceiverInStep'
  BY <1>1, <1>4, <1>5, <1>6, <1>7 DEF ReceiverInStep, asTold
<1>9. \A s \in Sends : SendCovered(s)'
  BY <1>1, <1>5, SameCover DEF SecretsInv, VerifiableInv
<1> QED BY <1>8, <1>9

LEMMA AnswerVerifiable ==
    ASSUME SecretsInv, NEW r \in Rotations, AnswerRotation(r)
    PROVE  VerifiableInv'
<1> SUFFICES ASSUME lapses' = {} PROVE ReceiverInStep' /\ \A s \in Sends : SendCovered(s)'
  BY DEF VerifiableInv
<1>1. /\ lapses = {} /\ UNCHANGED <<send, receiver, endpoint>> /\ told' = told \cup {asTold(r)}
      /\ Typed /\ ReceiverInStep /\ OneAtATime /\ rotation[r].pc = "answer"
  BY DEF AnswerRotation, SecretsInv, VerifiableInv, LatestInv, asTold
<1>2. rotation'[r].pc = "idle" /\ \A o \in Rotations : o # r => rotation'[o] = rotation[o]
  BY DEF AnswerRotation, SecretsInv, Typed, TypeOK, NoRotation
<1>3. Underway = {r} /\ Underway' = {} /\ Answering = {r} /\ Answering' = {}
  BY <1>1, <1>2 DEF OneAtATime, Underway, Answering
<1>4. told = {}
  BY <1>1, <1>3 DEF ReceiverInStep
<1>5. Pending = {asTold(r)} /\ Pending' = Pending /\ Upcoming = {asTold(r)} /\ Upcoming' = Upcoming
      /\ told' = {asTold(r)}
  BY <1>1, <1>3, <1>4 DEF Pending, Upcoming
<1>6. ReceiverInStep'
  BY <1>1, <1>3, <1>5 DEF ReceiverInStep
<1>7. \A s \in Sends : SendCovered(s)'
  BY <1>1, <1>5, SameCover DEF SecretsInv, VerifiableInv
<1> QED BY <1>6, <1>7

(* A claim takes the row as it is: the receiver has the secret for ever, or    *)
(* the rotation that made it can still be told.                                *)
LEMMA ClaimCovered ==
    ASSUME SecretsInv, lapses = {}, NEW s \in Sends, Claim(s)
    PROVE  SendCovered(s)'
<1>1. /\ send'[s].pc = "sign" /\ send'[s].row = endpoint /\ send'[s].age = 0
      /\ UNCHANGED <<endpoint, rotation, receiver, told>>
  BY DEF Claim, SecretsInv, Typed, TypeOK
<1>2. need(s)' = MaxPause + MaxAge /\ Pending' = Pending /\ Upcoming' = Upcoming
  BY <1>1, Numbers DEF need, Pending, Upcoming, Answering, Underway, asTold
<1>3. Typed /\ ReceiverInStep
  BY DEF SecretsInv, VerifiableInv
<1>4. CASE Pending = {}
  <2>1. receiver[endpoint.secret] = Forever /\ told = {} /\ Answering = {}
    BY <1>3, <1>4 DEF ReceiverInStep, Pending
  <2>2. ASSUME NEW t \in Upcoming PROVE t.left > MaxPause + MaxAge
    <3>1. PICK r \in Rotations : rotation[r].pc # "idle" /\ rotation[r].pc # "answer" /\ t = asTold(r)
      BY <2>1 DEF Upcoming, Underway, Answering
    <3> QED BY <1>3, <3>1, LeftOver, RotationRecord, Numbers DEF asTold
  <2>3. receiver[endpoint.secret] > MaxPause + MaxAge
    BY <2>1, Numbers
  <2>4. Lasts(send[s].row.secret, need(s))'
    BY <1>1, <1>2, <2>2, <2>3 DEF Lasts
  <2> QED BY <1>1, <2>4 DEF SendCovered
<1>5. CASE Pending # {}
  <2>1. PICK t \in Pending : TRUE
    BY <1>5
  <2> QED BY <1>1, <1>2, <1>3, <2>1 DEF SendCovered, ReceiverInStep
<1> QED BY <1>4, <1>5

(* Signing with both secrets keeps what the claim was promised.                *)
LEMMA SignCovered ==
    ASSUME SecretsInv, lapses = {}, NEW s \in Sends, Sign(s)
    PROVE  SendCovered(s)'
<1>1. /\ send'[s].pc = "sent" /\ send'[s].by = signatures(send[s].row) /\ send'[s].age = 0
      /\ send[s].pc = "sign" /\ UNCHANGED <<endpoint, rotation, receiver, told>>
  BY DEF Sign, SecretsInv, Typed, TypeOK
<1>2. Typed /\ ReceiverInStep /\ SendCovered(s) /\ Pending' = Pending /\ Upcoming' = Upcoming
  BY <1>1 DEF SecretsInv, VerifiableInv, Pending, Upcoming, Answering, Underway, asTold
<1>3. need(s)' = MaxAge /\ MaxAge <= need(s) /\ need(s) \in Int
  BY <1>1, <1>2, SendRecord, Numbers DEF need, Typed, SendsTimed
<1>4. CASE Lasts(send[s].row.secret, need(s))
  <2>1. PICK x \in Secrets : x = send[s].row.secret /\ x \in signatures(send[s].row)
    BY <1>2, SendRecord DEF signatures, EndpointRow
  <2>2. receiver[x] > need(s) /\ \A t \in Upcoming : t.secret # x => t.left > need(s)
    BY <1>4, <2>1 DEF Lasts
  <2>3. receiver[x] \in 0..Forever
    BY <1>2, <2>1 DEF Typed, TypeOK
  <2>4. receiver[x] > MaxAge
    BY <1>3, <2>2, <2>3, Numbers
  <2>5. \A t \in Upcoming : t.secret # x => t.left > MaxAge
    BY <1>2, <1>3, <2>2, UpcomingRecord, Numbers
  <2>6. Lasts(x, need(s))'
    BY <1>1, <1>2, <1>3, <2>4, <2>5 DEF Lasts
  <2> QED BY <1>1, <2>1, <2>6 DEF SendCovered
<1>5. CASE \E t \in Pending : /\ t.secret = send[s].row.secret /\ t.left = send[s].row.left
                              /\ send[s].row.previous # None
                              /\ receiver[send[s].row.previous] = Forever
  <2>1. send[s].row.left > 0
    BY <1>2, <1>5 DEF ReceiverInStep
  <2>2. send[s].row.secret \in send'[s].by /\ send[s].row.previous \in send'[s].by
    BY <1>1, <1>5, <2>1 DEF signatures
  <2>3. HandsOver(send[s].by)'
    BY <1>1, <1>2, <1>5, <2>2 DEF HandsOver
  <2> QED BY <1>1, <2>3 DEF SendCovered
<1> QED BY <1>1, <1>2, <1>4, <1>5 DEF SendCovered

LEMMA SendVerifiable ==
    ASSUME SecretsInv, NEW s \in Sends, Claim(s) \/ Sign(s) \/ EndSend(s)
    PROVE  VerifiableInv'
<1> SUFFICES ASSUME lapses' = {} PROVE ReceiverInStep' /\ \A z \in Sends : SendCovered(z)'
  BY DEF VerifiableInv
<1>1. /\ lapses = {} /\ UNCHANGED <<endpoint, rotation, receiver, told>>
      /\ \A z \in Sends : z # s => send'[z] = send[z]
  BY DEF Claim, Sign, EndSend, SecretsInv, Typed, TypeOK
<1>2. Pending' = Pending /\ Upcoming' = Upcoming
  BY <1>1 DEF Pending, Upcoming, Answering, Underway, asTold
<1>3. ReceiverInStep'
  BY <1>1, <1>2 DEF SecretsInv, VerifiableInv, ReceiverInStep, Underway
<1>4. ASSUME NEW z \in Sends, z # s PROVE SendCovered(z)'
  BY <1>1, <1>2, <1>4, SameCover DEF SecretsInv, VerifiableInv
<1>5. EndSend(s) => SendCovered(s)'
  BY DEF EndSend, NoSend, SendCovered, SecretsInv, Typed, TypeOK
<1> QED BY <1>1, <1>3, <1>4, <1>5, ClaimCovered, SignCovered

LEMMA CleanupVerifiable == ASSUME SecretsInv, cleanupExpiredEndpointSecrets PROVE VerifiableInv'
<1> SUFFICES ASSUME lapses' = {} PROVE ReceiverInStep' /\ \A s \in Sends : SendCovered(s)'
  BY DEF VerifiableInv
<1>1. /\ lapses = {} /\ UNCHANGED <<send, receiver, rotation, told>> /\ endpoint.left < 0
      /\ Typed /\ ReceiverInStep
  BY DEF cleanupExpiredEndpointSecrets, expired, SecretsInv, VerifiableInv
<1>2. Pending' = Pending /\ Upcoming' = Upcoming /\ Underway' = Underway
  BY <1>1 DEF Pending, Upcoming, Answering, Underway, asTold
<1>3. Pending = {}
  BY <1>1, EndpointRecord, Numbers DEF ReceiverInStep
<1>4. endpoint'.secret = endpoint.secret
  BY DEF cleanupExpiredEndpointSecrets, SecretsInv, Typed, TypeOK, EndpointRow
<1>5. \A s \in Sends : SendCovered(s)'
  BY <1>1, <1>2, SameCover DEF SecretsInv, VerifiableInv
<1> QED BY <1>1, <1>2, <1>3, <1>4, <1>5 DEF ReceiverInStep

(* Adopting what is pending: its secret lasts for ever, the others as long as  *)
(* they were left.                                                             *)
LEMMA AdoptVerifiable == ASSUME SecretsInv, NEW t \in told, Adopt(t) PROVE VerifiableInv'
<1> SUFFICES ASSUME lapses' = {} PROVE ReceiverInStep' /\ \A s \in Sends : SendCovered(s)'
  BY DEF VerifiableInv
<1>1. /\ lapses = {} /\ UNCHANGED <<send, rotation, endpoint>> /\ Typed /\ ReceiverInStep
      /\ told' = {u \in told : u.secret > t.secret}
  BY DEF Adopt, SecretsInv, VerifiableInv
<1>2. ASSUME NEW x \in Secrets
      PROVE receiver'[x] = IF x = t.secret THEN Forever
                           ELSE IF receiver[x] < t.left THEN receiver[x] ELSE t.left
  BY DEF Adopt
<1>3. told = {t} /\ told' = {} /\ Underway = {}
  BY <1>1, ToldRecord, Numbers DEF ReceiverInStep
<1>4. Pending = {t} /\ Pending' = {} /\ Upcoming = {t} /\ Upcoming' = {} /\ Underway' = {}
  BY <1>1, <1>3 DEF Pending, Upcoming, Answering, Underway
<1>5. t.secret = endpoint.secret /\ t.secret \in Secrets /\ t.left \in 0..Overlap
  BY <1>1, <1>4, ToldRecord DEF ReceiverInStep
<1>6. ReceiverInStep'
  BY <1>1, <1>2, <1>3, <1>4, <1>5 DEF ReceiverInStep
<1>7. ASSUME NEW s \in Sends, send[s].pc # "idle", NEW x \in Secrets, Lasts(x, need(s)) \/ x = t.secret
      PROVE  Lasts(x, need(s))'
  <2>1. receiver'[x] > need(s)
    <3>1. CASE x = t.secret
      BY <1>1, <1>2, <1>7, <3>1, Need, Numbers
    <3>2. CASE x # t.secret
      BY <1>2, <1>4, <1>7, <3>2 DEF Lasts
    <3> QED BY <3>1, <3>2
  <2> QED BY <1>1, <1>4, <2>1 DEF Lasts, need
<1>8. ASSUME NEW s \in Sends PROVE SendCovered(s)'
  <2>1. SendCovered(s)
    BY <1>1 DEF SecretsInv, VerifiableInv
  <2>2. send[s].row.secret \in Secrets /\ send[s].by \subseteq Secrets
    BY <1>1, SendRecord DEF EndpointRow
  <2>3. send[s].pc = "sign" => Lasts(send[s].row.secret, need(s))'
    BY <1>1, <1>4, <1>7, <2>1, <2>2 DEF SendCovered
  <2>4. send[s].pc = "sent" => \E x \in send[s].by : Lasts(x, need(s))'
    BY <1>4, <1>7, <2>1, <2>2 DEF SendCovered, HandsOver
  <2> QED BY <1>1, <2>3, <2>4 DEF SendCovered
<1> QED BY <1>6, <1>8

(* Time takes as much from the need of a send as from what covers it.          *)
LEMMA TickVerifiable == ASSUME SecretsInv, Tick PROVE VerifiableInv'
<1> SUFFICES ASSUME lapses' = {} PROVE ReceiverInStep' /\ \A s \in Sends : SendCovered(s)'
  BY DEF VerifiableInv
<1>1. lapses = {} /\ Typed /\ ReceiverInStep
  BY TickedRest DEF SecretsInv, VerifiableInv
<1>2. endpoint'.secret = endpoint.secret /\ endpoint'.previous = endpoint.previous
  BY <1>1, TickedRest, AgedTyped, EndpointRecord
<1>3. Underway' = Underway /\ Answering' = Answering
  BY <1>1, TickedRotation DEF Underway, Answering
<1>4. ASSUME NEW r \in Underway
      PROVE  asTold(r)'.secret = asTold(r).secret /\ asTold(r)'.left = asTold(r).left - 1
  BY <1>1, <1>4, TickedRotation DEF Underway, asTold
<1>5. Underway \subseteq Rotations /\ Answering \subseteq Underway
  BY DEF Underway, Answering
<1>6. ASSUME NEW u \in Upcoming' PROVE \E t \in Upcoming : u.secret = t.secret /\ u.left = t.left - 1
  <2>1. CASE u \in told'
    BY <1>1, <2>1, TickedRest DEF Upcoming
  <2>2. ASSUME NEW r \in Underway, u = asTold(r)' PROVE asTold(r) \in Upcoming
    BY DEF Upcoming
  <2> QED BY <1>3, <1>4, <1>6, <2>1, <2>2 DEF Upcoming
<1>7. ASSUME NEW u \in Pending' PROVE \E t \in Pending : u.secret = t.secret /\ u.left = t.left - 1
  <2>1. CASE u \in told'
    BY <1>1, <2>1, TickedRest DEF Pending
  <2>2. ASSUME NEW r \in Answering, u = asTold(r)' PROVE asTold(r) \in Pending
    BY DEF Pending
  <2> QED BY <1>3, <1>4, <1>5, <1>7, <2>1, <2>2 DEF Pending
<1>8. ASSUME NEW t \in Pending PROVE \E u \in Pending' : u.secret = t.secret /\ u.left = t.left - 1
  <2>1. CASE t \in told
    BY <1>1, <2>1, TickedRest DEF Pending
  <2>2. ASSUME NEW r \in Answering, t = asTold(r) PROVE asTold(r)' \in Pending'
    BY <1>3 DEF Pending
  <2> QED BY <1>3, <1>4, <1>5, <1>8, <2>1, <2>2 DEF Pending
<1>9. ASSUME NEW x \in Secrets, receiver[x] = Forever PROVE receiver'[x] = Forever
  BY <1>1, <1>9, TickedRest
<1>10. ReceiverInStep'
  <2>1. told' # {} => Underway' = {}
    BY <1>1, <1>3, TickedRest DEF ReceiverInStep
  <2>2. ASSUME NEW u \in told', NEW v \in told' PROVE u = v
    <3>1. PICK t \in told, w \in told : /\ u.secret = t.secret /\ u.left = t.left - 1
                                        /\ v.secret = w.secret /\ v.left = w.left - 1
      BY <1>1, TickedRest
    <3>2. u.secret = v.secret /\ u.left = v.left
      BY <1>1, <3>1 DEF ReceiverInStep
    <3>3. /\ u \in [secret : Secrets, left : 0..Overlap]
          /\ v \in [secret : Secrets, left : 0..Overlap]
      BY <1>1, TickedRest
    <3> QED BY <3>2, <3>3
  <2>3. Pending' = {} => receiver'[endpoint'.secret] = Forever
    <3>1. Pending' = {} => Pending = {}
      BY <1>8
    <3> QED BY <1>1, <1>2, <1>9, <3>1, EndpointRecord DEF ReceiverInStep
  <2>4. ASSUME NEW u \in Pending'
        PROVE  /\ u.secret = endpoint'.secret /\ u.left = endpoint'.left /\ u.left > 0
               /\ endpoint'.previous # None /\ receiver'[endpoint'.previous] = Forever
    <3>1. PICK t \in Pending : u.secret = t.secret /\ u.left = t.left - 1
      BY <1>7
    <3>2. /\ t.secret = endpoint.secret /\ t.left = endpoint.left /\ t.left > 0
          /\ endpoint.previous # None /\ receiver[endpoint.previous] = Forever
      BY <1>1 DEF ReceiverInStep
    <3>3. endpoint'.left = endpoint.left - 1
      BY <1>1, <3>2, TickedRest, AgedTyped, EndpointRecord, Numbers
    <3>4. u.left > 0
      <4>1. CASE u \in told'
        <5>1. PICK w \in told : w.left > 1 /\ w.left \in Int /\ u.left = w.left - 1
          BY <1>1, <4>1, TickedRest, ToldRecord, Numbers
        <5> QED BY <5>1
      <4>2. CASE \E r \in Answering' : u = asTold(r)'
        BY <1>1, <1>3, <4>2, TickedRotation DEF Answering, asTold
      <4> QED BY <4>1, <4>2 DEF Pending
    <3>5. receiver'[endpoint.previous] = Forever
      BY <1>1, <1>9, <3>2, EndpointRecord
    <3> QED BY <1>2, <3>1, <3>2, <3>3, <3>4, <3>5
  <2> QED BY <2>1, <2>2, <2>3, <2>4 DEF ReceiverInStep
<1>11. ASSUME NEW s \in Sends, NEW x \in Secrets, Lasts(x, need(s)),
              send[s].pc # "idle", need(s)' = need(s) - 1
       PROVE  Lasts(x, need(s))'
  <2>1. receiver'[x] > need(s)'
    BY <1>1, <1>11, TickedRest, Need, Numbers DEF Lasts
  <2>2. ASSUME NEW u \in Upcoming', u.secret # x PROVE u.left > need(s)'
    <3>1. PICK t \in Upcoming : u.secret = t.secret /\ u.left = t.left - 1
      BY <1>6
    <3>2. t.left > need(s)
      BY <1>11, <2>2, <3>1 DEF Lasts
    <3> QED BY <1>1, <1>11, <3>1, <3>2, UpcomingRecord, Need, Numbers
  <2> QED BY <2>1, <2>2 DEF Lasts
<1>12. ASSUME NEW s \in Sends PROVE SendCovered(s)'
  <2>1. SendCovered(s) /\ send[s].row \in EndpointRow /\ send[s].by \subseteq Secrets
    BY <1>1, SendRecord DEF SecretsInv, VerifiableInv
  <2>2. CASE send[s].pc = "sign" /\ send'[s].pc = "sign"
    <3>1. send'[s].row = aged(send[s].row) /\ send'[s].age = send[s].age + 1
      BY <1>1, <2>2, TickedSend
    <3>2. send'[s].row.secret = send[s].row.secret /\ send'[s].row.previous = send[s].row.previous
      BY <2>1, <3>1, AgedTyped
    <3>3. need(s)' = need(s) - 1
      BY <1>1, <2>2, <3>1, SendRecord, Numbers DEF need
    <3>4. CASE Lasts(send[s].row.secret, need(s))
      <4>1. PICK x \in Secrets : x = send[s].row.secret
        BY <2>1 DEF EndpointRow
      <4>2. Lasts(x, need(s))'
        BY <1>11, <2>2, <3>3, <3>4, <4>1
      <4> QED BY <2>2, <3>2, <4>1, <4>2 DEF SendCovered
    <3>5. ASSUME NEW t \in Pending, t.secret = send[s].row.secret, t.left = send[s].row.left,
                 send[s].row.previous # None, receiver[send[s].row.previous] = Forever
          PROVE  SendCovered(s)'
      <4>1. PICK u \in Pending' : u.secret = t.secret /\ u.left = t.left - 1
        BY <1>8
      <4>2. t.left > 0
        BY <1>1 DEF ReceiverInStep
      <4>3. send'[s].row.left = send[s].row.left - 1
        BY <2>1, <3>1, <3>5, <4>2, AgedTyped DEF EndpointRow
      <4>4. receiver'[send[s].row.previous] = Forever
        BY <1>9, <2>1, <3>5 DEF EndpointRow
      <4> QED BY <2>2, <3>2, <3>5, <4>1, <4>3, <4>4 DEF SendCovered
    <3> QED BY <2>1, <2>2, <3>4, <3>5 DEF SendCovered
  <2>3. CASE send[s].pc = "sent" /\ send'[s].pc = "sent"
    <3>1. send'[s].by = send[s].by /\ send'[s].age = send[s].age + 1
      BY <1>1, <2>3, TickedSend
    <3>2. need(s)' = need(s) - 1
      BY <1>1, <2>3, <3>1, SendRecord, Numbers DEF need
    <3>3. ASSUME NEW x \in send[s].by, Lasts(x, need(s)) PROVE SendCovered(s)'
      <4>1. Lasts(x, need(s))'
        BY <1>11, <2>1, <2>3, <3>2, <3>3
      <4> QED BY <2>3, <3>1, <4>1 DEF SendCovered
    <3>4. CASE HandsOver(send[s].by)
      <4>1. PICK t \in Pending, x \in send[s].by : t.secret \in send[s].by /\ receiver[x] = Forever
        BY <3>4 DEF HandsOver
      <4>2. PICK u \in Pending' : u.secret = t.secret
        BY <1>8
      <4>3. receiver'[x] = Forever
        BY <1>9, <2>1, <4>1
      <4> QED BY <2>3, <3>1, <4>1, <4>2, <4>3 DEF SendCovered, HandsOver
    <3> QED BY <2>1, <2>3, <3>3, <3>4 DEF SendCovered
  <2>4. CASE send'[s].pc = "idle"
    BY <2>4 DEF SendCovered
  <2> QED BY <1>1, <2>2, <2>3, <2>4, TickedSend
<1> QED BY <1>10, <1>12

LEMMA InitInv == Init => SecretsInv
  BY InitTyped, InitLatest, InitVerifiable DEF SecretsInv

LEMMA InvStep == SecretsInv /\ [Next]_vars => SecretsInv'
<1> SUFFICES ASSUME SecretsInv, [Next]_vars PROVE SecretsInv'
  OBVIOUS
<1>1. CASE UNCHANGED vars
  <2>1. Pending' = Pending /\ Upcoming' = Upcoming /\ Underway' = Underway
    BY <1>1 DEF vars, Pending, Upcoming, Underway, Answering, asTold
  <2>2. ASSUME lapses = {}, NEW s \in Sends PROVE SendCovered(s)'
    BY <1>1, <2>1, <2>2, SameCover DEF vars, SecretsInv, VerifiableInv
  <2>3. VerifiableInv'
    BY <1>1, <2>1, <2>2 DEF vars, SecretsInv, VerifiableInv, ReceiverInStep
  <2>4. Typed' /\ LatestInv'
    BY TypedStep, LatestStep DEF SecretsInv
  <2> QED BY <2>3, <2>4 DEF SecretsInv
<1>2. ASSUME NEW r \in Rotations, LoseAnswer(r) PROVE VerifiableInv'
  BY <1>2 DEF LoseAnswer, VerifiableInv
<1>3. CASE Next
  <2>1. VerifiableInv'
    BY <1>2, <1>3, BeginVerifiable, ReadVerifiable, WriteVerifiable, AnswerVerifiable,
       SendVerifiable, CleanupVerifiable, AdoptVerifiable, TickVerifiable DEF Next
  <2>2. Typed' /\ LatestInv'
    BY TypedStep, LatestStep DEF SecretsInv
  <2> QED BY <2>1, <2>2 DEF SecretsInv
<1> QED BY <1>1, <1>3

LEMMA Invariance == Spec => []SecretsInv
  BY InitInv, InvStep, PTL DEF Spec

(* Rows, rotations, sends, the receiver's secrets and the answers are of their *)
(* types; the endpoint's previous secret is never its current one.             *)
THEOREM TypeCorrect == Spec => []TypeOK
<1>1. SecretsInv => TypeOK
  BY DEF SecretsInv, Typed
<1> QED BY Invariance, <1>1, PTL

(* The secret told last goes on signing as long as rotations are made one at a *)
(* time and no answer is lost, for any number of rotations.                    *)
THEOREM ToldSecretSigns == Spec => []LatestSigns
<1>1. SecretsInv => LatestSigns
  <2> SUFFICES ASSUME SecretsInv, lapses \cap {"overlapping", "lost"} = {}, NEW t \in told,
                      ~ \E u \in told : u.secret > t.secret
               PROVE  t.secret \in signatures(endpoint)
    BY DEF LatestSigns
  <2>1. LatestTold /\ t.secret = Latest
    BY DEF SecretsInv, LatestInv, LatestTold
  <2>2. CASE Answering = {}
    BY <2>1, <2>2 DEF Latest, signatures
  <2>3. ASSUME NEW r \in Answering PROVE t.secret \in signatures(endpoint)
    <3>1. t.secret = endpoint.previous /\ endpoint.previous # None /\ endpoint.left = rotation[r].left
      BY <2>1 DEF LatestTold, Latest
    <3>2. rotation[r].left > 0
      BY LeftOver DEF Answering, SecretsInv
    <3> QED BY <3>1, <3>2 DEF signatures
  <2> QED BY <2>2, <2>3
<1> QED BY Invariance, <1>1, PTL

(* A request that is still young enough is verifiable: the overlap of the      *)
(* secrets outlasts a rotation's three pauses and a request's age, whatever    *)
(* the receiver's owner does first.                                            *)
THEOREM RequestsVerifiable == Spec => []Verifiable
<1>1. SecretsInv => Verifiable
  <2> SUFFICES ASSUME SecretsInv, lapses = {}, NEW s \in Sends, send[s].pc = "sent"
               PROVE  \E x \in send[s].by : receiver[x] > 0
    BY DEF Verifiable
  <2>1. need(s) \in Int /\ need(s) >= 0 /\ SendCovered(s)
    BY Need DEF SecretsInv, VerifiableInv
  <2>2. \A x \in send[s].by : receiver[x] \in 0..Forever
    BY SendRecord DEF SecretsInv, Typed, TypeOK
  <2> QED BY <2>1, <2>2, Numbers DEF SendCovered, Lasts, HandsOver
<1> QED BY Invariance, <1>1, PTL
================================================================================
