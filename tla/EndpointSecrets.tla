---------------------------- MODULE EndpointSecrets ----------------------------
(* The signing secrets of one endpoint: their rotation through the API, their  *)
(* use by workers that sign and send, the clean-up of an expired predecessor,  *)
(* and the receiver that checks what arrives.  Times are in ticks, told        *)
(* relative to the present; all clocks agree.                                  *)
EXTENDS Integers

CONSTANTS
    Rotations,      \* requests that rotate the secret
    Sends,          \* sends of workers
    Overlap,        \* how long a predecessor goes on signing: 24 hours in the code
    MaxAge,         \* the age up to which a receiver accepts a timestamp: 300 s
    MaxPause,       \* bound: how long a request or a worker takes between two steps
    LastSecret      \* bound: how many secrets are generated

ASSUME SecretsAssumption ==
    /\ MaxPause \in Nat /\ MaxAge \in Nat /\ LastSecret \in Nat \ {0}
    /\ Overlap \in Nat /\ Overlap > MaxAge + 3 * MaxPause

VARIABLES
    endpoint,   \* secretKey, previousSecretKey, previousSecretExpiresAt
    rotation,   \* the rotations under way
    send,       \* the sends under way
    receiver,   \* the secrets the receiver accepts, and for how long still
    told,       \* answers of rotations the receiver has not been given yet
    lapses      \* what has gone wrong on the way between the API and the owner

vars == <<endpoint, rotation, send, receiver, told, lapses>>

None == 0                   \* null; secrets are numbered as they are generated
Secrets == 1..LastSecret
Forever == Overlap + 1

EndpointRow == [secret : Secrets, previous : Secrets \cup {None}, left : -1..Overlap]

TypeOK ==
    /\ endpoint \in EndpointRow
    /\ rotation \in [Rotations ->
          [pc : {"idle", "read", "write", "answer"}, secret : Secrets \cup {None},
           left : 0..Overlap, current : Secrets \cup {None}, age : 0..MaxPause]]
    /\ send \in [Sends -> [pc : {"idle", "sign", "sent"}, row : EndpointRow,
                           by : SUBSET Secrets, age : 0..(MaxAge + MaxPause)]]
    /\ receiver \in [Secrets -> 0..Forever]
    /\ told \subseteq [secret : Secrets, left : 0..Overlap]
    /\ lapses \subseteq {"overlapping", "unread", "lost"}
    /\ endpoint.previous # endpoint.secret

FirstRow == [secret |-> 1, previous |-> None, left |-> 0]
NoRotation == [pc |-> "idle", secret |-> None, left |-> 0, current |-> None, age |-> 0]
NoSend == [pc |-> "idle", row |-> FirstRow, by |-> {}, age |-> 0]

Init ==
    /\ endpoint = FirstRow
    /\ rotation = [r \in Rotations |-> NoRotation]
    /\ send = [s \in Sends |-> NoSend]
    /\ receiver = [x \in Secrets |-> IF x = 1 THEN Forever ELSE 0]
    /\ told = {}
    /\ lapses = {}

generated == {1, endpoint.secret, endpoint.previous} \cup {rotation[r].secret : r \in Rotations}
                 \cup {x \in Secrets : receiver[x] > 0} \cup {t.secret : t \in told}

-----------------------------------------------------------------------------
(* POST /endpoints/:id/rotate-secret, once the endpoint is known to be the     *)
(* tenant's: the new secret and the expiry of the old one are fixed first.     *)
BeginRotation(r) ==
    /\ rotation[r].pc = "idle"
    /\ \E new \in Secrets :
          /\ \A x \in generated : x < new
          /\ rotation' = [rotation EXCEPT ![r] =
                [pc |-> "read", secret |-> new, left |-> Overlap, current |-> None, age |-> 0]]
    /\ lapses' = lapses
          \cup (IF \E o \in Rotations : rotation[o].pc # "idle" THEN {"overlapping"} ELSE {})
          \cup (IF told # {} THEN {"unread"} ELSE {})
    /\ UNCHANGED <<endpoint, send, receiver, told>>

(* findSecret                                                                  *)
ReadSecret(r) ==
    /\ rotation[r].pc = "read"
    /\ rotation' = [rotation EXCEPT ![r].pc = "write", ![r].current = endpoint.secret, ![r].age = 0]
    /\ UNCHANGED <<endpoint, send, receiver, told, lapses>>

(* Mutants: the predecessor is not kept; the new secret is kept in its place.  *)
rotated_Forgetful(r) == [secret |-> rotation[r].secret, previous |-> None, left |-> 0]

rotated_Itself(r) == [secret |-> rotation[r].secret, previous |-> rotation[r].secret,
                      left |-> rotation[r].left]

rotated(r) == [secret |-> rotation[r].secret, previous |-> rotation[r].current,
               left |-> rotation[r].left]

WriteSecret(r) ==
    /\ rotation[r].pc = "write"
    /\ endpoint' = rotated(r)
    /\ rotation' = [rotation EXCEPT ![r].pc = "answer", ![r].age = 0]
    /\ UNCHANGED <<send, receiver, told, lapses>>

(* The only time the secret is shown, with the expiry of the old one.          *)
AnswerRotation(r) ==
    /\ rotation[r].pc = "answer"
    /\ told' = told \cup {[secret |-> rotation[r].secret, left |-> rotation[r].left]}
    /\ rotation' = [rotation EXCEPT ![r] = NoRotation]
    /\ UNCHANGED <<endpoint, send, receiver, lapses>>

(* The answer is lost, or the process dies before it: nobody knows the secret. *)
LoseAnswer(r) ==
    /\ rotation[r].pc # "idle"
    /\ lapses' = lapses \cup {"lost"}
    /\ rotation' = [rotation EXCEPT ![r] = NoRotation]
    /\ UNCHANGED <<endpoint, send, receiver, told>>

-----------------------------------------------------------------------------
(* A claim returns the endpoint with the delivery; the worker signs with that. *)
Claim(s) ==
    /\ send[s].pc = "idle"
    /\ send' = [send EXCEPT ![s] = [pc |-> "sign", row |-> endpoint, by |-> {}, age |-> 0]]
    /\ UNCHANGED <<endpoint, rotation, receiver, told, lapses>>

(* Mutant: only the current secret signs.                                      *)
signatures_CurrentOnly(row) == {row.secret}

signatures(row) ==
    {row.secret} \cup (IF row.previous # None /\ row.left > 0 THEN {row.previous} ELSE {})

Sign(s) ==
    /\ send[s].pc = "sign"
    /\ send' = [send EXCEPT ![s] = [pc |-> "sent", row |-> FirstRow,
                                    by |-> signatures(send[s].row), age |-> 0]]
    /\ UNCHANGED <<endpoint, rotation, receiver, told, lapses>>

(* It arrives, or is given up.                                                 *)
EndSend(s) ==
    /\ send[s].pc = "sent"
    /\ send' = [send EXCEPT ![s] = NoSend]
    /\ UNCHANGED <<endpoint, rotation, receiver, told, lapses>>

(* Mutant: the clean-up does not look at the expiry.                           *)
expired_Always(row) == TRUE

expired(row) == row.left < 0

cleanupExpiredEndpointSecrets ==
    /\ endpoint.previous # None /\ expired(endpoint)
    /\ endpoint' = [endpoint EXCEPT !.previous = None, !.left = 0]
    /\ UNCHANGED <<rotation, send, receiver, told, lapses>>

-----------------------------------------------------------------------------
(* The owner configures the receiver with a new secret some time before the    *)
(* old one expires, and lets it accept the old one until then.  Of two secrets *)
(* the earlier is not used any more.                                           *)
Adopt(t) ==
    /\ t \in told
    /\ receiver' = [x \in Secrets |-> IF x = t.secret THEN Forever
                                      ELSE IF receiver[x] < t.left THEN receiver[x] ELSE t.left]
    /\ told' = {u \in told : u.secret > t.secret}
    /\ UNCHANGED <<endpoint, rotation, send, lapses>>

aged(row) == [row EXCEPT !.left = IF row.previous = None \/ @ < 0 THEN @ ELSE @ - 1]

laterRotation(t) == IF t.pc = "idle" THEN t ELSE [t EXCEPT !.age = @ + 1, !.left = @ - 1]

(* A receiver accepts a request no longer than MaxAge after it was signed.     *)
laterSend(t) ==
    IF t.pc = "idle" THEN t
    ELSE IF t.pc = "sign" THEN [t EXCEPT !.age = @ + 1, !.row = aged(@)]
    ELSE IF t.age < MaxAge THEN [t EXCEPT !.age = @ + 1] ELSE NoSend

Tick ==
    /\ \A r \in Rotations : rotation[r].pc # "idle" => rotation[r].age < MaxPause
    /\ \A s \in Sends : send[s].pc = "sign" => send[s].age < MaxPause
    /\ \A t \in told : t.left > 1
    /\ endpoint' = aged(endpoint)
    /\ rotation' = [r \in Rotations |-> laterRotation(rotation[r])]
    /\ send' = [s \in Sends |-> laterSend(send[s])]
    /\ receiver' = [x \in Secrets |->
          IF receiver[x] \in {0, Forever} THEN receiver[x] ELSE receiver[x] - 1]
    /\ told' = {[t EXCEPT !.left = @ - 1] : t \in told}
    /\ UNCHANGED lapses

Next ==
    \/ \E r \in Rotations :
          BeginRotation(r) \/ ReadSecret(r) \/ WriteSecret(r)
          \/ AnswerRotation(r) \/ LoseAnswer(r)
    \/ \E s \in Sends : Claim(s) \/ Sign(s) \/ EndSend(s)
    \/ \E t \in told : Adopt(t)
    \/ cleanupExpiredEndpointSecrets
    \/ Tick

Spec == Init /\ [][Next]_vars

-----------------------------------------------------------------------------
(* Verifiable: while a request is young enough to be accepted, the receiver    *)
(* holds a secret that has signed it, whenever in the overlap it is given the  *)
(* new one, however rotations, claims, sends and the clean-up interleave, if   *)
(* the owner rotates once at a time and only when the receiver has the last,   *)
(* and no answer is lost.                                                      *)
Verifiable ==
    lapses = {} => \A s \in Sends :
        send[s].pc = "sent" => \E x \in send[s].by : receiver[x] > 0

(* LatestSigns: with rotations one at a time and no answer lost, the secret    *)
(* told last signs from then on, also while the next rotation is under way and *)
(* whether or not the receiver keeps up.                                       *)
LatestSigns ==
    lapses \cap {"overlapping", "lost"} = {} => \A t \in told :
        \/ t.secret \in signatures(endpoint)
        \/ \E u \in told : u.secret > t.secret
=============================================================================
