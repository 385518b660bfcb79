------------------------------- MODULE TenantApi -------------------------------
(* The HTTP API of one installation: tenants and their keys, endpoints and     *)
(* their subscriptions, and the ingestion of events, for requests that overlap *)
(* at every await, fail, or lose their answer and are repeated.  What becomes  *)
(* of the deliveries of an event is the matter of WebhookEngine.               *)
EXTENDS FiniteSets, Integers

CONSTANTS
    Tenants, Endpoints,     \* their rows, once created
    Urls, Types,            \* normalised URLs; event types, of which one is the wildcard
    Wildcard,
    IdempotencyKeys,
    Requests,               \* requests in the hands of API processes
    Keys,                   \* API keys; one that nobody has any more may be used anew
    Nothing,
    Updates,                \* bound: what PATCH /endpoints/:id asks for
    Subscriptions,          \* bound: the eventTypes with which endpoints are created
    Calls                   \* bound: how many arrive, of those that overlap others

TenantRows == [active : BOOLEAN, key : Keys]
EndpointRows == [tenant : Tenants, url : Urls, active : BOOLEAN, types : (SUBSET Types) \ {{}}]

(* A field of an update is {} or holds its one value.                          *)
Field(S) == {f \in SUBSET S : \A x, y \in f : x = y}
UpdateRecords == [url : Field(Urls), active : Field(BOOLEAN), types : Field((SUBSET Types) \ {{}})]

ASSUME ApiAssumption ==
    /\ Wildcard \in Types /\ Calls \in Nat
    /\ Nothing \notin TenantRows \cup EndpointRows \cup Endpoints
    /\ IsFiniteSet(Keys) /\ IsFiniteSet(Tenants) /\ IsFiniteSet(Requests)
    /\ Cardinality(Keys) > 2 * Cardinality(Tenants) + Cardinality(Requests)
    /\ Subscriptions \subseteq (SUBSET Types) \ {{}}
    /\ Updates \subseteq UpdateRecords

VARIABLES
    tenants, endpoints, events,     \* the tables; subscriptions are part of endpoints
    request,    \* the requests under way
    calls,      \* how many have arrived
    held,       \* the API key each tenant was told last
    answers,    \* per tenant and idempotency key: events accepted, and whether any 2xx answer
    asked,      \* what the owner of an endpoint may expect of it, after the answers so far
    seen,       \* which endpoints fitted the event, at any time since its request arrived
    outlived,   \* requests not answered yet whose event has been cleaned up
    lapses      \* tenants whose key rotations overlapped or were not answered, or whose
                \* creation was not

vars == <<tenants, endpoints, events, request, calls, held, answers, asked, seen, outlived,
          lapses>>
tables == <<tenants, endpoints, events>>
owners == <<held, answers, asked, lapses>>

-----------------------------------------------------------------------------
Idle == [pc |-> "idle"]
open(r) == request[r].pc # "idle"
at(r, pc) == request[r].pc = pc
goto(r, pc) == request' = [request EXCEPT ![r].pc = pc]
end(r) == request' = [request EXCEPT ![r] = Idle]
isRotation(r) == request[r].pc \in {"writeKey", "answerKey"}
isUpdate(r) == request[r].pc \in {"commitUpdate", "answerUpdate"}
isAnswering(r) == request[r].pc \in {"accepted", "repeated"}
isIngestion(r) == request[r].pc \in {"read", "create"} \/ isAnswering(r)

Existing == {e \in Endpoints : endpoints[e] # Nothing}
EndpointsOf(t) == {e \in Existing : endpoints[e].tenant = t}
NoDeliveries == [accepted |-> 0, answered |-> FALSE]

TypeOK ==
    /\ tenants \in [Tenants -> TenantRows \cup {Nothing}]
    /\ endpoints \in [Endpoints -> EndpointRows \cup {Nothing}]
    /\ \A e, f \in Existing : endpoints[e].tenant = endpoints[f].tenant
                                  /\ endpoints[e].url = endpoints[f].url => e = f
    /\ events \subseteq [tenant : Tenants, key : IdempotencyKeys, type : Types \ {Wildcard},
                         targets : SUBSET Endpoints]
    /\ calls \in 0..Calls /\ held \in [Tenants -> Keys \cup {Nothing}]

Init ==
    /\ tenants = [t \in Tenants |-> Nothing] /\ endpoints = [e \in Endpoints |-> Nothing]
    /\ events = {} /\ calls = 0 /\ lapses = {} /\ outlived = {}
    /\ request = [r \in Requests |-> Idle]
    /\ held = [t \in Tenants |-> Nothing]
    /\ answers = [t \in Tenants |-> [k \in IdempotencyKeys |-> NoDeliveries]]
    /\ asked = [e \in Endpoints |-> Nothing]
    /\ seen = [r \in Requests |-> {}]

arrive(r, call) ==
    /\ ~open(r) /\ calls < Calls
    /\ calls' = calls + 1
    /\ request' = [request EXCEPT ![r] = call]

(* TenantApiKeyGuard, for a tenant that sends the key it holds; the tenant's   *)
(* id is all that is known of it afterwards.  AdminApiKeyGuard keeps no state. *)
authenticated(t) == tenants[t] # Nothing /\ tenants[t].active /\ tenants[t].key = held[t]

generateApiKey == CHOOSE k \in Keys :
    /\ k \notin {held[t] : t \in Tenants}
    /\ \A t \in Tenants : tenants[t] # Nothing => tenants[t].key # k
    /\ \A r \in Requests : isRotation(r) => request[r].key # k

-----------------------------------------------------------------------------
(* Tenants, by the administrator                                               *)

newRow(t, url, types) == [tenant |-> t, url |-> url, active |-> TRUE, types |-> types]
expectation(types) == [active |-> {TRUE}, types |-> {types}]

(* POST /tenants, with endpoints of different URLs and, since these types are  *)
(* not made unique, no type twice: otherwise, and if the transaction fails,    *)
(* nothing is created.  If the answer is lost nobody knows the key.            *)
CreateTenant(t) ==
    /\ tenants[t] = Nothing
    /\ tenants' = [tenants EXCEPT ![t] = [active |-> TRUE, key |-> generateApiKey]]
    /\ \/ held' = [held EXCEPT ![t] = generateApiKey] /\ UNCHANGED lapses
       \/ lapses' = lapses \cup {t} /\ UNCHANGED held
    /\ \E new \in SUBSET (Endpoints \ Existing) :
       \E url \in [new -> Urls], types \in [new -> Subscriptions] :
          /\ \A e, f \in new : url[e] = url[f] => e = f
          /\ endpoints' = [e \in Endpoints |->
                IF e \in new THEN newRow(t, url[e], types[e]) ELSE endpoints[e]]
          /\ asked' = [e \in Endpoints |-> IF e \in new THEN expectation(types[e]) ELSE asked[e]]
    /\ UNCHANGED <<events, request, calls, answers>>

(* DELETE /tenants/:id; there is no way back, and the endpoints stay active.   *)
DeleteTenant(t) ==
    /\ tenants[t] # Nothing /\ tenants[t].active
    /\ tenants' = [tenants EXCEPT ![t].active = FALSE]
    /\ UNCHANGED <<endpoints, events, request, calls, owners>>

rotating(t) == {r \in Requests : isRotation(r) /\ request[r].tenant = t}

RotateKey(r, t) ==
    /\ tenants[t] # Nothing
    /\ arrive(r, [pc |-> "writeKey", tenant |-> t, key |-> generateApiKey])
    /\ lapses' = IF rotating(t) = {} THEN lapses ELSE lapses \cup {t}
    /\ UNCHANGED <<tables, held, answers, asked>>

(* Mutant: the new key is not stored.                                          *)
updateApiKeyHash_Forgotten(r) == tenants[request[r].tenant]

updateApiKeyHash(r) == [tenants[request[r].tenant] EXCEPT !.key = request[r].key]

WriteKey(r) ==
    /\ at(r, "writeKey")
    /\ tenants' = [tenants EXCEPT ![request[r].tenant] = updateApiKeyHash(r)]
    /\ goto(r, "answerKey")
    /\ UNCHANGED <<endpoints, events, calls, owners>>

AnswerKey(r) ==
    /\ at(r, "answerKey")
    /\ held' = [held EXCEPT ![request[r].tenant] = request[r].key]
    /\ end(r)
    /\ UNCHANGED <<tables, calls, answers, asked, lapses>>

-----------------------------------------------------------------------------
(* Endpoints, by their tenant                                                  *)

(* Mutant: URLs are not unique.                                                *)
urlTaken_Never(t, url, e) == FALSE

urlTaken(t, url, e) == \E o \in EndpointsOf(t) \ {e} : endpoints[o].url = url

CreateEndpoint(r, t) ==
    /\ authenticated(t)
    /\ \E url \in Urls, types \in Subscriptions :
          arrive(r, [pc |-> "createEndpoint", row |-> newRow(t, url, types)])
    /\ UNCHANGED <<tables, owners>>

(* P2002, of the unique URL, is answered with 409.                             *)
InsertEndpoint(r) ==
    /\ at(r, "createEndpoint")
    /\ LET row == request[r].row
       IN  IF urlTaken(row.tenant, row.url, Nothing)
           THEN UNCHANGED <<endpoints, asked>>
           ELSE \E e \in Endpoints \ Existing :
                /\ endpoints' = [endpoints EXCEPT ![e] = row]
                /\ asked' = [asked EXCEPT ![e] = expectation(row.types)]
    /\ end(r)
    /\ UNCHANGED <<tenants, events, calls, held, answers, lapses>>

(* DELETE /endpoints/:id                                                       *)
softDelete == [url |-> {}, active |-> {FALSE}, types |-> {}]

overlapping(r, e) == {o \in Requests \ {r} : isUpdate(o) /\ request[o].endpoint = e}

requireOwnedEndpoint(t, e) == e \in EndpointsOf(t)

(* findOwned, and the snapshot of deleteMany: the rows there are.              *)
BeginUpdate(r, t, e, u) ==
    /\ authenticated(t) /\ requireOwnedEndpoint(t, e)
    /\ ~open(r) /\ calls < Calls /\ calls' = calls + 1
    /\ request' = [o \in Requests |->
          IF o = r THEN [pc |-> "commitUpdate", endpoint |-> e, update |-> u, before |-> asked[e],
                         rows |-> IF u.types = {} THEN {} ELSE endpoints[e].types,
                         alone |-> overlapping(r, e) = {}]
          ELSE IF o \in overlapping(r, e) THEN [request[o] EXCEPT !.alone = FALSE]
          ELSE request[o]]
    /\ asked' = [asked EXCEPT ![e].active = @ \cup u.active, ![e].types = @ \cup u.types]
    /\ UNCHANGED <<tables, held, answers, lapses>>

settledAs(r) ==
    [active |-> IF request[r].update.active = {} THEN asked[request[r].endpoint].active
                ELSE request[r].update.active,
     types |-> IF request[r].update.types = {} THEN asked[request[r].endpoint].types
               ELSE request[r].update.types]

(* The rest of the transaction.  Under READ COMMITTED deleteMany spares rows   *)
(* that others have committed since its snapshot, so that two overlapping      *)
(* updates add up; a type that both insert, like a URL in use, fails with      *)
(* P2002, which rolls back all of it and is answered with 409.                 *)
spared(r) == endpoints[request[r].endpoint].types \ request[r].rows

(* Mutant: subscriptions are added to, not replaced.                           *)
replaced_Added(r) == endpoints[request[r].endpoint].types \cup UNION request[r].update.types

replaced(r) == IF request[r].update.types = {} THEN endpoints[request[r].endpoint].types
               ELSE spared(r) \cup UNION request[r].update.types

conflicts(r) ==
    \/ spared(r) \cap UNION request[r].update.types # {}
    \/ \E url \in request[r].update.url :
          urlTaken(endpoints[request[r].endpoint].tenant, url, request[r].endpoint)

valueOr(field, old) == IF field = {} THEN old ELSE CHOOSE x \in field : TRUE

CommitUpdate(r) ==
    /\ at(r, "commitUpdate") /\ ~conflicts(r)
    /\ LET e == request[r].endpoint
           u == request[r].update
           old == endpoints[e]
       IN  /\ endpoints' = [endpoints EXCEPT ![e] =
                 [tenant |-> old.tenant, url |-> valueOr(u.url, old.url),
                  active |-> valueOr(u.active, old.active), types |-> replaced(r)]]
           /\ request' = [o \in Requests |->
                 IF o = r THEN [request[r] EXCEPT !.pc = "answerUpdate"]
                 ELSE IF o \in overlapping(r, e)
                 THEN [request[o] EXCEPT !.rows = @ \ request[r].rows]
                 ELSE request[o]]
    /\ UNCHANGED <<tenants, events, calls, owners>>

RefuseUpdate(r) ==
    /\ at(r, "commitUpdate") /\ conflicts(r)
    /\ asked' = IF request[r].alone THEN [asked EXCEPT ![request[r].endpoint] = request[r].before]
                ELSE asked
    /\ end(r)
    /\ UNCHANGED <<tables, calls, held, answers, lapses>>

AnswerUpdate(r) ==
    /\ at(r, "answerUpdate")
    /\ asked' = IF request[r].alone THEN [asked EXCEPT ![request[r].endpoint] = settledAs(r)]
                ELSE asked
    /\ end(r)
    /\ UNCHANGED <<tables, calls, held, answers, lapses>>

-----------------------------------------------------------------------------
(* Events                                                                      *)

(* Mutant: exact types only.                                                   *)
subscribed_Exact(t, type) ==
    {e \in EndpointsOf(t) : endpoints[e].active /\ type \in endpoints[e].types}

subscribed(t, type) ==
    {e \in EndpointsOf(t) : endpoints[e].active /\ {type, Wildcard} \cap endpoints[e].types # {}}

Submit(r, t) ==
    /\ authenticated(t)
    /\ \E k \in IdempotencyKeys, type \in Types \ {Wildcard} :
          arrive(r, [pc |-> "read", tenant |-> t, key |-> k, type |-> type, targets |-> {}])
    /\ UNCHANGED <<tables, owners>>

(* The tenant and its endpoints, whether or not it is still active.            *)
ReadEndpoints(r) ==
    /\ at(r, "read")
    /\ request' = [request EXCEPT ![r].pc = "create",
                       ![r].targets = subscribed(request[r].tenant, request[r].type)]
    /\ UNCHANGED <<tables, calls, owners>>

eventOf(r) == {x \in events : x.tenant = request[r].tenant /\ x.key = request[r].key}

(* Mutant: keys are unique only with their type.                               *)
isRepeat_SameType(r) == \E x \in eventOf(r) : x.type = request[r].type

isRepeat(r) == eventOf(r) # {}

(* The transaction: the event with its deliveries, or P2002.  Of publication,  *)
(* whose failure is caught, the answer shows nothing.                          *)
CreateForTenant(r) ==
    /\ at(r, "create")
    /\ LET q == request[r]
       IN  IF isRepeat(r) THEN goto(r, "repeated") /\ UNCHANGED <<events, answers>>
           ELSE /\ events' = events \cup
                      {[tenant |-> q.tenant, key |-> q.key, type |-> q.type, targets |-> q.targets]}
                /\ answers' = [answers EXCEPT ![q.tenant][q.key].accepted = @ + 1]
                /\ goto(r, "accepted")
    /\ UNCHANGED <<tenants, endpoints, calls, held, asked, lapses>>

(* "Event accepted for processing", "Event already accepted"; it is about an   *)
(* event that is there, unless that has been cleaned up since the transaction. *)
AnswerSubmit(r) ==
    /\ isAnswering(r)
    /\ answers' = IF r \in outlived THEN answers
                  ELSE [answers EXCEPT ![request[r].tenant][request[r].key].answered = TRUE]
    /\ end(r)
    /\ UNCHANGED <<tables, calls, held, asked, lapses>>

(* Days later, events whose deliveries have ended may be removed, whatever     *)
(* requests with their keys are under way: the keys are free again.            *)
cleanupOldEvents ==
    /\ \E x \in events :
          /\ x.targets # {}
          /\ events' = events \ {x}
          /\ answers' = [answers EXCEPT ![x.tenant][x.key] = NoDeliveries]
    /\ UNCHANGED <<tenants, endpoints, request, calls, held, asked, lapses>>

-----------------------------------------------------------------------------
(* A call of the database fails and the request with it, or the process dies,  *)
(* or the answer is lost; what is committed stays.                             *)
Fail(r) ==
    /\ open(r)
    /\ end(r)
    /\ lapses' = IF isRotation(r) THEN lapses \cup {request[r].tenant} ELSE lapses
    /\ UNCHANGED <<tables, calls, held, answers, asked>>

RequestStep(r) ==
    \/ WriteKey(r) \/ AnswerKey(r)
    \/ InsertEndpoint(r) \/ CommitUpdate(r) \/ RefuseUpdate(r) \/ AnswerUpdate(r)
    \/ ReadEndpoints(r) \/ CreateForTenant(r) \/ AnswerSubmit(r)
    \/ Fail(r)
    \/ \E t \in Tenants :
          \/ RotateKey(r, t) \/ Submit(r, t) \/ CreateEndpoint(r, t)
          \/ \E e \in Endpoints, u \in Updates \cup {softDelete} : BeginUpdate(r, t, e, u)

(* Which endpoints should receive an event of a request, at this moment.       *)
fitting(r) ==
    {e \in Existing : /\ endpoints[e].tenant = request[r].tenant /\ endpoints[e].active
                      /\ request[r].type \in endpoints[e].types \/ Wildcard \in endpoints[e].types}

observe ==
    /\ seen' = [r \in Requests |-> IF isIngestion(r)' THEN seen[r] \cup {fitting(r)'} ELSE {}]
    /\ outlived' = {r \in Requests : /\ isAnswering(r)'
                                     /\ r \in outlived \/ eventOf(r) \ events' # {}}

Next ==
    /\ \/ \E t \in Tenants : CreateTenant(t) \/ DeleteTenant(t)
       \/ \E r \in Requests : RequestStep(r)
       \/ cleanupOldEvents
    /\ observe

Spec == Init /\ [][Next]_vars

-----------------------------------------------------------------------------
(* AcceptedOnce: however often a request is repeated, at once or after its     *)
(* answer was lost, its event is accepted once until it is cleaned up, and     *)
(* every answer that says it is accepted is true of this tenant's event, but   *)
(* for an answer under way while the event is cleaned up: a repeat as the      *)
(* retention ends is told "Event already accepted" of an event that is gone.   *)
AcceptedOnce ==
    \A t \in Tenants, k \in IdempotencyKeys :
        /\ answers[t][k].accepted <= 1
        /\ answers[t][k].answered => \E x \in events : x.tenant = t /\ x.key = k

(* FanOutWasRight: an event gets a delivery for exactly the endpoints that     *)
(* fitted it at some moment after its request arrived, although they are read  *)
(* before the transaction and may change meanwhile.                            *)
FanOutWasRight ==
    \A r \in Requests :
        at(r, "accepted") /\ r \notin outlived => \A x \in eventOf(r) : x.targets \in seen[r]

(* AsAsked: an endpoint is what the last answered request of its owner asked   *)
(* for; an update that is refused leaves nothing behind, and those that        *)
(* overlap or lose their answer leave no more than what they asked for         *)
(* together, and all the subscriptions of one.                                 *)
AsAsked ==
    \A e \in Existing :
        /\ endpoints[e].active \in asked[e].active
        /\ endpoints[e].types \subseteq UNION asked[e].types
        /\ \E types \in asked[e].types : types \subseteq endpoints[e].types

(* KeyOpens: the key a tenant was told last lets it in until it is deleted,    *)
(* but while a rotation is under way, or if rotations have overlapped or one,  *)
(* or its creation, was not answered.                                          *)
KeyOpens ==
    \A t \in Tenants : tenants[t] # Nothing /\ tenants[t].active =>
        authenticated(t) \/ rotating(t) # {} \/ t \in lapses
=============================================================================
