---------------------------- MODULE TenantApiProofs ----------------------------
(* What the API promises to tenants and their owners, for any number of        *)
(* tenants, endpoints, keys and requests under way at the same time.           *)
EXTENDS TenantApi, FiniteSetTheorems, TLAPS

Expectations == [active : SUBSET BOOLEAN, types : SUBSET (SUBSET Types)]
Counts == [accepted : {0, 1}, answered : BOOLEAN]
EventRows == [tenant : Tenants, key : IdempotencyKeys, type : Types \ {Wildcard},
              targets : SUBSET Endpoints]

Rotation == [pc : {"writeKey", "answerKey"}, tenant : Tenants, key : Keys]
NewRows == [tenant : Tenants, url : Urls, active : {TRUE}, types : (SUBSET Types) \ {{}}]
Creation == [pc : {"createEndpoint"}, row : NewRows]
Change == [pc : {"commitUpdate", "answerUpdate"}, endpoint : Endpoints, update : UpdateRecords,
           before : Expectations, rows : SUBSET Types, alone : BOOLEAN]
Ingestion == [pc : {"read", "create", "accepted", "repeated"}, tenant : Tenants,
              key : IdempotencyKeys, type : Types \ {Wildcard}, targets : SUBSET Endpoints]

RequestStates == {Idle} \cup Rotation \cup Creation \cup Change \cup Ingestion

present(t) == tenants[t] \in TenantRows

(* The types of all variables, and that rows and requests refer to rows there  *)
(* are.                                                                        *)
Typed ==
    /\ TypeOK
    /\ request \in [Requests -> RequestStates]
    /\ answers \in [Tenants -> [IdempotencyKeys -> Counts]]
    /\ asked \in [Endpoints -> Expectations \cup {Nothing}]
    /\ lapses \subseteq Tenants

Related ==
    /\ \A e \in Existing : asked[e] \in Expectations /\ present(endpoints[e].tenant)
    /\ \A r \in Requests : /\ isRotation(r) => present(request[r].tenant)
                           /\ at(r, "createEndpoint") => present(request[r].row.tenant)
                           /\ isUpdate(r) => request[r].endpoint \in Existing

(* An idempotency key has one event, and answers say what there is.            *)
eventsOf(t, k) == {x \in events : x.tenant = t /\ x.key = k}

Accepted ==
    /\ \A x, y \in events : x.tenant = y.tenant /\ x.key = y.key => x = y
    /\ \A t \in Tenants, k \in IdempotencyKeys : eventsOf(t, k) = {} => answers[t][k] = NoDeliveries
    /\ \A r \in Requests : isAnswering(r) /\ r \notin outlived => eventOf(r) # {}

(* What was read of the subscriptions goes on being one of the sets seen.      *)
FannedOut ==
    \A r \in Requests :
        /\ at(r, "create") => request[r].targets \in seen[r]
        /\ at(r, "accepted") /\ r \notin outlived => \A x \in eventOf(r) : x.targets \in seen[r]

(* The last key written is the one to be told.                                 *)
KeyTold ==
    \A t \in Tenants \ lapses :
        /\ \A r, o \in rotating(t) : r = o
        /\ \A r \in rotating(t) : at(r, "answerKey") => tenants[t].key = request[r].key
        /\ present(t) /\ rotating(t) = {} => tenants[t].key = held[t]

fits(row, expected) ==
    /\ row.active \in expected.active
    /\ row.types \subseteq UNION expected.types
    /\ \E types \in expected.types : types \subseteq row.types

(* Of an update under way, what it asks for counts; of one that is alone, too, *)
(* what there was before it, and what is there once it is committed.           *)
UpdateKept(r) ==
    LET e == request[r].endpoint
        u == request[r].update
    IN  /\ u.active \subseteq asked[e].active /\ u.types \subseteq asked[e].types
        /\ request[r].alone => overlapping(r, e) = {}
        /\ at(r, "commitUpdate") /\ request[r].alone =>
              /\ fits(endpoints[e], request[r].before)
              /\ u.types # {} => endpoints[e].types = request[r].rows
        /\ at(r, "answerUpdate") /\ request[r].alone =>
              /\ u.active # {} => endpoints[e].active \in u.active
              /\ u.types # {} => endpoints[e].types = UNION u.types

Asked ==
    /\ \A e \in Existing : fits(endpoints[e], asked[e])
    /\ \A r \in Requests : isUpdate(r) => UpdateKept(r)

ApiInv == Typed /\ Related /\ Accepted /\ FannedOut /\ KeyTold /\ Asked

-----------------------------------------------------------------------------
LEMMA Kinds ==
    ASSUME Typed, NEW r \in Requests
    PROVE  /\ request[r] \in RequestStates
           /\ isRotation(r) => request[r] \in Rotation
           /\ at(r, "createEndpoint") => request[r] \in Creation
           /\ isUpdate(r) => request[r] \in Change
           /\ isIngestion(r) => request[r] \in Ingestion
           /\ open(r) => isRotation(r) \/ at(r, "createEndpoint") \/ isUpdate(r) \/ isIngestion(r)
  BY DEF Typed, RequestStates, Idle, Rotation, Creation, Change, Ingestion, isRotation, isUpdate,
         isIngestion, isAnswering, at, open

LEMMA Fields ==
    ASSUME Typed, NEW r \in Requests
    PROVE  /\ isRotation(r) => request[r].tenant \in Tenants /\ request[r].key \in Keys
           /\ at(r, "createEndpoint") => /\ request[r].row \in EndpointRows
                                        /\ request[r].row \in NewRows
           /\ isUpdate(r) => /\ request[r].endpoint \in Endpoints /\ request[r].update \in UpdateRecords
                             /\ request[r].before \in Expectations /\ request[r].rows \in SUBSET Types
                             /\ request[r].alone \in BOOLEAN
           /\ isIngestion(r) => /\ request[r].tenant \in Tenants /\ request[r].key \in IdempotencyKeys
                                /\ request[r].type \in Types \ {Wildcard}
                                /\ request[r].targets \in SUBSET Endpoints
<1>1. at(r, "createEndpoint") => request[r].row \in NewRows
  BY Kinds DEF Creation
<1>2. NewRows \subseteq EndpointRows
  BY DEF NewRows, EndpointRows
<1> QED BY <1>1, <1>2, Kinds DEF Rotation, Change, Ingestion

(* A request that goes on.                                                     *)
LEMMA Goto ==
    ASSUME Typed, NEW r \in Requests, NEW pc, goto(r, pc),
           \/ isRotation(r) /\ pc \in {"writeKey", "answerKey"}
           \/ isIngestion(r) /\ pc \in {"read", "create", "accepted", "repeated"}
    PROVE  /\ request' \in [Requests -> RequestStates]
           /\ \A o \in Requests \ {r} : request'[o] = request[o]
           /\ request'[r].pc = pc
           /\ isRotation(r) =>
                 request'[r].tenant = request[r].tenant /\ request'[r].key = request[r].key
           /\ isIngestion(r) =>
                 /\ request'[r].tenant = request[r].tenant /\ request'[r].key = request[r].key
                 /\ request'[r].type = request[r].type /\ request'[r].targets = request[r].targets
<1>1. request \in [Requests -> RequestStates] /\ request' = [request EXCEPT ![r] = [@ EXCEPT !.pc = pc]]
  BY DEF Typed, goto
<1>2. CASE isRotation(r) /\ pc \in {"writeKey", "answerKey"}
  <2>1. request[r] \in Rotation /\ ~isIngestion(r)
    BY <1>2, Kinds DEF isRotation, isIngestion, isAnswering
  <2>2. [request[r] EXCEPT !.pc = pc] \in Rotation
    BY <1>2, <2>1 DEF Rotation
  <2>3. /\ [request[r] EXCEPT !.pc = pc].pc = pc
        /\ [request[r] EXCEPT !.pc = pc].tenant = request[r].tenant
        /\ [request[r] EXCEPT !.pc = pc].key = request[r].key
    BY <2>1 DEF Rotation
  <2> QED BY <1>1, <2>1, <2>2, <2>3 DEF RequestStates
<1>3. CASE isIngestion(r) /\ pc \in {"read", "create", "accepted", "repeated"}
  <2>1. request[r] \in Ingestion /\ ~isRotation(r)
    BY <1>3, Kinds DEF isRotation, isIngestion, isAnswering
  <2>2. [request[r] EXCEPT !.pc = pc] \in Ingestion
    BY <1>3, <2>1 DEF Ingestion
  <2>3. /\ [request[r] EXCEPT !.pc = pc].pc = pc
        /\ [request[r] EXCEPT !.pc = pc].tenant = request[r].tenant
        /\ [request[r] EXCEPT !.pc = pc].key = request[r].key
        /\ [request[r] EXCEPT !.pc = pc].type = request[r].type
        /\ [request[r] EXCEPT !.pc = pc].targets = request[r].targets
    BY <2>1 DEF Ingestion
  <2> QED BY <1>1, <2>1, <2>2, <2>3 DEF RequestStates
<1> QED BY <1>2, <1>3

(* A request that begins, or ends.                                             *)
LEMMA Becomes ==
    ASSUME Typed, NEW r \in Requests, NEW q \in RequestStates, request' = [request EXCEPT ![r] = q]
    PROVE  /\ request' \in [Requests -> RequestStates]
           /\ \A o \in Requests \ {r} : request'[o] = request[o]
           /\ request'[r] = q
  BY DEF Typed

(* Not all keys are in use.                                                    *)
LEMMA FreeKey == Typed => generateApiKey \in Keys
<1> SUFFICES ASSUME Typed PROVE generateApiKey \in Keys
  OBVIOUS
<1> DEFINE H == {held[t] : t \in Tenants}
           K == {tenants[t].key : t \in Tenants}
           R == {request[r].key : r \in Requests}
<1>1. /\ IsFiniteSet(Keys) /\ IsFiniteSet(Tenants) /\ IsFiniteSet(Requests)
      /\ Cardinality(Keys) > 2 * Cardinality(Tenants) + Cardinality(Requests)
      /\ Cardinality(Tenants) \in Nat /\ Cardinality(Requests) \in Nat /\ Cardinality(Keys) \in Nat
  BY ApiAssumption, FS_CardinalityType
<1>2. IsFiniteSet(H) /\ Cardinality(H) <= Cardinality(Tenants)
  <2>1. [t \in Tenants |-> held[t]] \in Surjection(Tenants, H)
    BY DEF Surjection
  <2> QED BY <1>1, <2>1, FS_Surjection
<1>3. IsFiniteSet(K) /\ Cardinality(K) <= Cardinality(Tenants)
  <2>1. [t \in Tenants |-> tenants[t].key] \in Surjection(Tenants, K)
    BY DEF Surjection
  <2> QED BY <1>1, <2>1, FS_Surjection
<1>4. IsFiniteSet(R) /\ Cardinality(R) <= Cardinality(Requests)
  <2>1. [r \in Requests |-> request[r].key] \in Surjection(Requests, R)
    BY DEF Surjection
  <2> QED BY <1>1, <2>1, FS_Surjection
<1> HIDE DEF H, K, R
<1>5. IsFiniteSet(H \cup K) /\ Cardinality(H \cup K) <= Cardinality(H) + Cardinality(K)
  <2>1. IsFiniteSet(H \cap K)
    BY <1>2, FS_Subset
  <2>2. /\ IsFiniteSet(H \cup K)
        /\ Cardinality(H \cup K) = Cardinality(H) + Cardinality(K) - Cardinality(H \cap K)
    BY <1>2, <1>3, FS_Union
  <2>3. /\ Cardinality(H) \in Nat /\ Cardinality(K) \in Nat /\ Cardinality(H \cap K) \in Nat
    BY <1>2, <1>3, <2>1, FS_CardinalityType
  <2> QED BY <2>2, <2>3
<1>6. /\ IsFiniteSet((H \cup K) \cup R)
      /\ Cardinality((H \cup K) \cup R) <= Cardinality(H \cup K) + Cardinality(R)
  <2>1. IsFiniteSet((H \cup K) \cap R)
    BY <1>5, FS_Subset
  <2>2. /\ IsFiniteSet((H \cup K) \cup R)
        /\ Cardinality((H \cup K) \cup R)
              = Cardinality(H \cup K) + Cardinality(R) - Cardinality((H \cup K) \cap R)
    BY <1>4, <1>5, FS_Union
  <2>3. /\ Cardinality(H \cup K) \in Nat /\ Cardinality(R) \in Nat
        /\ Cardinality((H \cup K) \cap R) \in Nat
    BY <1>4, <1>5, <2>1, FS_CardinalityType
  <2> QED BY <2>2, <2>3
<1>7. Cardinality((H \cup K) \cup R) < Cardinality(Keys)
  <2>1. /\ Cardinality(H) \in Nat /\ Cardinality(K) \in Nat /\ Cardinality(R) \in Nat
        /\ Cardinality(H \cup K) \in Nat /\ Cardinality((H \cup K) \cup R) \in Nat
    BY <1>2, <1>3, <1>4, <1>5, <1>6, FS_CardinalityType
  <2> QED BY <1>1, <1>2, <1>3, <1>4, <1>5, <1>6, <2>1
<1>8. PICK k \in Keys : k \notin (H \cup K) \cup R
  <2>1. CASE Keys \subseteq (H \cup K) \cup R
    <3>1. Cardinality(Keys) <= Cardinality((H \cup K) \cup R)
      BY <1>6, <2>1, FS_Subset
    <3>2. Cardinality((H \cup K) \cup R) \in Nat
      BY <1>6, FS_CardinalityType
    <3> QED BY <1>1, <1>7, <3>1, <3>2
  <2> QED BY <2>1
<1>9. /\ k \notin {held[t] : t \in Tenants}
      /\ \A t \in Tenants : tenants[t] # Nothing => tenants[t].key # k
      /\ \A r \in Requests : isRotation(r) => request[r].key # k
  BY <1>8 DEF H, K, R
<1> QED BY <1>9 DEF generateApiKey

LEMMA RowFields ==
    ASSUME Typed, NEW e \in Existing
    PROVE  /\ e \in Endpoints /\ endpoints[e] \in EndpointRows
           /\ endpoints[e].tenant \in Tenants /\ endpoints[e].url \in Urls
           /\ endpoints[e].active \in BOOLEAN /\ endpoints[e].types \in (SUBSET Types) \ {{}}
  BY DEF Typed, TypeOK, Existing, EndpointRows

LEMMA Rows == ASSUME Typed PROVE Existing = {e \in Endpoints : endpoints[e] \in EndpointRows}
  BY ApiAssumption DEF Typed, TypeOK, Existing

LEMMA Present == ASSUME Typed, NEW t \in Tenants PROVE present(t) <=> tenants[t] # Nothing
  BY ApiAssumption DEF Typed, TypeOK, present

LEMMA NewRow ==
    ASSUME NEW t \in Tenants, NEW url \in Urls, NEW types \in (SUBSET Types) \ {{}}
    PROVE  /\ newRow(t, url, types) \in EndpointRows /\ newRow(t, url, types) \in NewRows
           /\ newRow(t, url, types).tenant = t /\ newRow(t, url, types).url = url
           /\ expectation(types) \in Expectations
           /\ fits(newRow(t, url, types), expectation(types))
  BY DEF newRow, EndpointRows, NewRows, expectation, Expectations, fits

LEMMA InitTyped == Init => Typed /\ Related
<1> SUFFICES ASSUME Init PROVE Typed /\ Related
  OBVIOUS
<1>1. Existing = {} /\ \A r \in Requests : request[r].pc = "idle"
  BY DEF Init, Existing, Idle
<1>2. Idle \in RequestStates /\ NoDeliveries \in Counts
  BY DEF RequestStates, NoDeliveries, Counts
<1>3. Typed
  BY <1>1, <1>2, ApiAssumption DEF Typed, TypeOK, Init
<1> QED BY <1>1, <1>3 DEF Related, isRotation, isUpdate, at

(* Tenants and endpoints stay as they are.                                     *)
LEMMA SameTables ==
    ASSUME Typed, Related, UNCHANGED <<tenants, endpoints>>, events' \subseteq EventRows,
           held' \in [Tenants -> Keys \cup {Nothing}], lapses' \subseteq Tenants,
           request' \in [Requests -> RequestStates],
           answers' \in [Tenants -> [IdempotencyKeys -> Counts]],
           asked' \in [Endpoints -> Expectations \cup {Nothing}], calls' \in 0..Calls,
           \A e \in Existing : asked'[e] \in Expectations,
           \A r \in Requests : \/ request'[r] = request[r]
                               \/ /\ isRotation(r)' => present(request'[r].tenant)
                                  /\ at(r, "createEndpoint")' => present(request'[r].row.tenant)
                                  /\ isUpdate(r)' => request'[r].endpoint \in Existing
    PROVE  Typed' /\ Related'
<1>1. Typed'
  BY DEF Typed, TypeOK, Existing, EventRows
<1>2. Existing' = Existing /\ (\A t : present(t)' <=> present(t)) /\ endpoints' = endpoints
  BY DEF Existing, present
<1>3. \A e \in Existing' : asked'[e] \in Expectations /\ present(endpoints[e].tenant)'
  BY <1>2 DEF Related
<1>4. ASSUME NEW r \in Requests
      PROVE  /\ isRotation(r)' => present(request[r].tenant)'
             /\ at(r, "createEndpoint")' => present(request[r].row.tenant)'
             /\ isUpdate(r)' => request'[r].endpoint \in Existing'
  <2>1. CASE request'[r] = request[r]
    BY <1>2, <2>1 DEF Related, isRotation, isUpdate, at
  <2>2. CASE request'[r] # request[r]
    BY <1>2, <2>2
  <2> QED BY <2>1, <2>2
<1> QED BY <1>1, <1>3, <1>4 DEF Related

LEMMA CreateTenantTyped ==
    ASSUME Typed, Related, NEW t \in Tenants, CreateTenant(t)
    PROVE  Typed' /\ Related'
<1>1. PICK new \in SUBSET (Endpoints \ Existing) :
      \E url \in [new -> Urls], types \in [new -> Subscriptions] :
          /\ \A e, f \in new : url[e] = url[f] => e = f
          /\ endpoints' = [e \in Endpoints |->
                IF e \in new THEN newRow(t, url[e], types[e]) ELSE endpoints[e]]
          /\ asked' = [e \in Endpoints |-> IF e \in new THEN expectation(types[e]) ELSE asked[e]]
  BY DEF CreateTenant
<1>2. PICK url \in [new -> Urls], types \in [new -> Subscriptions] :
          /\ \A e, f \in new : url[e] = url[f] => e = f
          /\ endpoints' = [e \in Endpoints |->
                IF e \in new THEN newRow(t, url[e], types[e]) ELSE endpoints[e]]
          /\ asked' = [e \in Endpoints |-> IF e \in new THEN expectation(types[e]) ELSE asked[e]]
  BY <1>1
<1>3. ASSUME NEW e \in new
      PROVE  /\ endpoints'[e] \in EndpointRows /\ endpoints'[e].tenant = t
             /\ endpoints'[e].url = url[e] /\ asked'[e] \in Expectations
  <2>1. e \in Endpoints /\ url[e] \in Urls /\ types[e] \in (SUBSET Types) \ {{}}
    BY ApiAssumption
  <2> QED BY <1>2, <2>1, NewRow
<1>4. \A e \in Endpoints \ new : endpoints'[e] = endpoints[e] /\ asked'[e] = asked[e]
  BY <1>2
<1>5. /\ tenants' = [tenants EXCEPT ![t] = [active |-> TRUE, key |-> generateApiKey]]
      /\ held' \in {held, [held EXCEPT ![t] = generateApiKey]} /\ tenants[t] = Nothing
      /\ lapses' \in {lapses, lapses \cup {t}}
      /\ UNCHANGED <<events, request, calls, answers>>
  BY DEF CreateTenant
<1>6. [active |-> TRUE, key |-> generateApiKey] \in TenantRows /\ generateApiKey \in Keys
  BY FreeKey DEF TenantRows
<1>7. tenants' \in [Tenants -> TenantRows \cup {Nothing}] /\ held' \in [Tenants -> Keys \cup {Nothing}]
  BY <1>5, <1>6, SMTT(20) DEF Typed, TypeOK
<1>8. endpoints' \in [Endpoints -> EndpointRows \cup {Nothing}]
  <2>1. \A e \in Endpoints : endpoints'[e] \in EndpointRows \cup {Nothing}
    BY <1>3, <1>4 DEF Typed, TypeOK
  <2>2. endpoints' = [e \in Endpoints |-> endpoints'[e]]
    BY <1>2
  <2> QED BY <2>1, <2>2
<1>9. asked' \in [Endpoints -> Expectations \cup {Nothing}]
  <2>1. \A e \in Endpoints : asked'[e] \in Expectations \cup {Nothing}
    BY <1>3, <1>4 DEF Typed
  <2>2. asked' = [e \in Endpoints |-> asked'[e]]
    BY <1>2
  <2> QED BY <2>1, <2>2
<1>10. Existing' = Existing \cup new
  BY <1>3, <1>4, ApiAssumption DEF Existing
<1>11. \A u : present(u) /\ u \in Tenants => present(u)'
  BY <1>5, <1>6 DEF present, Typed, TypeOK
<1>12. present(t)' /\ ~present(t)
  BY <1>5, <1>6, ApiAssumption DEF present, Typed, TypeOK
<1>13. \A e \in Existing : endpoints'[e] = endpoints[e] /\ endpoints[e].tenant # t
  BY <1>4, <1>12, RowFields DEF Related
<1>14. \A e, f \in Existing' : endpoints'[e].tenant = endpoints'[f].tenant
                                  /\ endpoints'[e].url = endpoints'[f].url => e = f
  <2>1. \A e, f \in Existing : endpoints[e].tenant = endpoints[f].tenant
                                  /\ endpoints[e].url = endpoints[f].url => e = f
    BY DEF Typed, TypeOK
  <2>2. ASSUME NEW e \in Existing', NEW f \in Existing', endpoints'[e].tenant = endpoints'[f].tenant,
               endpoints'[e].url = endpoints'[f].url
        PROVE  e = f
    <3>1. CASE e \in new /\ f \in new
      BY <1>2, <1>3, <2>2, <3>1
    <3>2. CASE e \in Existing /\ f \in Existing
      BY <1>13, <2>1, <2>2, <3>2
    <3> QED BY <1>3, <1>10, <1>13, <2>2, <3>1, <3>2
  <2> QED BY <2>2
<1>15. Typed'
  BY <1>5, <1>7, <1>8, <1>9, <1>14 DEF Typed, TypeOK
<1>16. \A e \in Existing' : asked'[e] \in Expectations /\ present(endpoints[e].tenant)'
  BY <1>3, <1>4, <1>10, <1>11, <1>12, <1>13, RowFields DEF Related
<1>17. ASSUME NEW r \in Requests
       PROVE  /\ isRotation(r)' => present(request[r].tenant)'
              /\ at(r, "createEndpoint")' => present(request[r].row.tenant)'
              /\ isUpdate(r)' => request'[r].endpoint \in Existing'
  BY <1>5, <1>10, <1>11, Fields DEF Related, isRotation, at, isUpdate, EndpointRows
<1> QED BY <1>15, <1>16, <1>17 DEF Related

(* A tenant's row changes, for one that is there.                              *)
LEMMA TenantTyped ==
    ASSUME Typed, Related, NEW t \in Tenants, NEW row \in TenantRows, present(t),
           tenants' = [tenants EXCEPT ![t] = row],
           request' \in [Requests -> RequestStates],
           UNCHANGED <<endpoints, events, calls, held, answers, asked, lapses>>,
           \A r \in Requests : \/ request'[r] = request[r]
                               \/ /\ ~at(r, "createEndpoint")' /\ ~isUpdate(r)'
                                  /\ isRotation(r)' => request'[r].tenant = t
    PROVE  Typed' /\ Related'
<1>1. tenants' \in [Tenants -> TenantRows \cup {Nothing}] /\ Existing' = Existing
  BY DEF Typed, TypeOK, Existing
<1>2. Typed'
  BY <1>1 DEF Typed, TypeOK
<1>3. \A u \in Tenants : present(u) => present(u)'
  BY DEF present, Typed, TypeOK
<1>4. \A e \in Existing' : asked'[e] \in Expectations /\ present(endpoints[e].tenant)'
  BY <1>1, <1>3, RowFields DEF Related
<1>5. ASSUME NEW r \in Requests
      PROVE  /\ isRotation(r)' => present(request[r].tenant)'
             /\ at(r, "createEndpoint")' => present(request[r].row.tenant)'
             /\ isUpdate(r)' => request'[r].endpoint \in Existing'
  <2>1. CASE request'[r] = request[r]
    BY <1>1, <1>3, <2>1, Fields DEF Related, isRotation, at, isUpdate, EndpointRows
  <2>2. CASE request'[r] # request[r]
    BY <1>3, <2>2
  <2> QED BY <2>1, <2>2
<1> QED BY <1>2, <1>4, <1>5 DEF Related

(* An endpoint's row changes, or is the first.                                 *)
LEMMA EndpointTyped ==
    ASSUME Typed, Related, NEW e \in Endpoints, NEW row \in EndpointRows, present(row.tenant),
           endpoints' = [endpoints EXCEPT ![e] = row],
           \A o \in Existing \ {e} : ~(endpoints[o].tenant = row.tenant /\ endpoints[o].url = row.url),
           request' \in [Requests -> RequestStates],
           UNCHANGED <<tenants, events, calls, held, answers, lapses>>,
           asked' \in [Endpoints -> Expectations \cup {Nothing}],
           \A o \in Existing \cup {e} : asked'[o] \in Expectations,
           \A r \in Requests : \/ request'[r] = request[r]
                               \/ /\ ~at(r, "createEndpoint")' /\ ~isRotation(r)'
                                  /\ isUpdate(r)' => request'[r].endpoint \in Existing
    PROVE  Typed' /\ Related'
<1>1. endpoints' \in [Endpoints -> EndpointRows \cup {Nothing}]
  BY DEF Typed, TypeOK
<1>2. endpoints'[e] = row /\ \A o \in Endpoints \ {e} : endpoints'[o] = endpoints[o]
  BY DEF Typed, TypeOK
<1>3. Existing' = Existing \cup {e}
  BY <1>2, ApiAssumption DEF Existing
<1>4. \A f, g \in Existing' : endpoints'[f].tenant = endpoints'[g].tenant
                                  /\ endpoints'[f].url = endpoints'[g].url => f = g
  <2>1. \A f, g \in Existing : endpoints[f].tenant = endpoints[g].tenant
                                  /\ endpoints[f].url = endpoints[g].url => f = g
    BY DEF Typed, TypeOK
  <2> QED BY <1>2, <1>3, <2>1 DEF Existing
<1>5. Typed'
  BY <1>1, <1>4 DEF Typed, TypeOK
<1>6. \A u : present(u)' <=> present(u)
  BY DEF present
<1>7. \A o \in Existing' : asked'[o] \in Expectations /\ present(endpoints[o].tenant)'
  BY <1>2, <1>3, <1>6, RowFields DEF Related
<1>8. ASSUME NEW r \in Requests
      PROVE  /\ isRotation(r)' => present(request[r].tenant)'
             /\ at(r, "createEndpoint")' => present(request[r].row.tenant)'
             /\ isUpdate(r)' => request'[r].endpoint \in Existing'
  <2>1. CASE request'[r] = request[r]
    BY <1>3, <1>6, <2>1 DEF Related, isRotation, at, isUpdate
  <2>2. CASE request'[r] # request[r]
    BY <1>3, <2>2
  <2> QED BY <2>1, <2>2
<1> QED BY <1>5, <1>7, <1>8 DEF Related

LEMMA TenantRowFields ==
    ASSUME Typed, NEW t \in Tenants, present(t)
    PROVE  tenants[t].key \in Keys /\ tenants[t].active \in BOOLEAN
  BY DEF present, TenantRows

LEMMA IdleState == Idle \in RequestStates /\ Idle.pc = "idle"
  BY DEF RequestStates, Idle

(* What a request that ends leaves.                                            *)
LEMMA End ==
    ASSUME Typed, NEW r \in Requests, end(r)
    PROVE  /\ request' \in [Requests -> RequestStates]
           /\ \A o \in Requests \ {r} : request'[o] = request[o]
           /\ request'[r].pc = "idle"
           /\ ~isRotation(r)' /\ ~at(r, "createEndpoint")' /\ ~isUpdate(r)' /\ ~isIngestion(r)'
<1>1. request' = [request EXCEPT ![r] = Idle]
  BY DEF end
<1> QED BY <1>1, Becomes, IdleState DEF isRotation, at, isUpdate, isIngestion, isAnswering

LEMMA DeleteTyped ==
    ASSUME Typed, Related, NEW t \in Tenants, DeleteTenant(t)
    PROVE  Typed' /\ Related'
<1>1. present(t) /\ tenants[t] \in TenantRows
  BY Present DEF DeleteTenant, present
<1>2. [tenants[t] EXCEPT !.active = FALSE] \in TenantRows
  BY <1>1 DEF TenantRows
<1>3. tenants' = [tenants EXCEPT ![t] = [tenants[t] EXCEPT !.active = FALSE]]
  BY DEF DeleteTenant
<1> QED BY <1>1, <1>2, <1>3, TenantTyped DEF DeleteTenant, owners, Typed

(* A request begins.                                                           *)
LEMMA Arrival ==
    ASSUME Typed, NEW r \in Requests, NEW call \in RequestStates, arrive(r, call)
    PROVE  /\ request' \in [Requests -> RequestStates] /\ calls' \in 0..Calls
           /\ \A o \in Requests \ {r} : request'[o] = request[o]
           /\ request'[r] = call /\ ~open(r)
<1>1. calls' \in 0..Calls
  BY ApiAssumption DEF arrive, Typed, TypeOK
<1> QED BY <1>1, Becomes DEF arrive

LEMMA RotateKeyTyped ==
    ASSUME Typed, Related, NEW r \in Requests, NEW t \in Tenants, RotateKey(r, t)
    PROVE  Typed' /\ Related'
<1> DEFINE call == [pc |-> "writeKey", tenant |-> t, key |-> generateApiKey]
<1>1. call \in Rotation
  BY FreeKey DEF Rotation
<1>2. arrive(r, call) /\ UNCHANGED <<tables, held, answers, asked>> /\ lapses' \subseteq Tenants
      /\ present(t)
  BY Present DEF RotateKey, Typed
<1>3. call.tenant = t /\ call.pc = "writeKey" /\ call \in RequestStates
  BY <1>1 DEF RequestStates
<1> HIDE DEF call
<1>4. ~at(r, "createEndpoint")' /\ ~isUpdate(r)' /\ (isRotation(r)' => present(request'[r].tenant))
  BY <1>2, <1>3, Arrival DEF at, isUpdate
<1> QED BY <1>2, <1>3, <1>4, Arrival, SameTables DEF tables, Typed, TypeOK, Related, EventRows

LEMMA WriteKeyTyped ==
    ASSUME Typed, Related, NEW r \in Requests, WriteKey(r)
    PROVE  Typed' /\ Related'
<1>1. isRotation(r) /\ goto(r, "answerKey")
      /\ UNCHANGED <<endpoints, events, calls, held, answers, asked, lapses>>
  BY DEF WriteKey, at, isRotation, owners
<1>2. PICK t \in Tenants : t = request[r].tenant /\ present(t)
  BY <1>1, Fields DEF Related
<1>3. updateApiKeyHash(r) \in TenantRows
  BY <1>1, <1>2, Fields DEF updateApiKeyHash, present, TenantRows
<1>4. tenants' = [tenants EXCEPT ![t] = updateApiKeyHash(r)]
  BY <1>2 DEF WriteKey
<1>5. /\ request' \in [Requests -> RequestStates] /\ request'[r].tenant = t
      /\ request'[r].pc = "answerKey" /\ \A o \in Requests \ {r} : request'[o] = request[o]
  BY <1>1, <1>2, Goto
<1>6. ~at(r, "createEndpoint")' /\ ~isUpdate(r)'
  BY <1>5 DEF at, isUpdate
<1> QED BY <1>1, <1>2, <1>3, <1>4, <1>5, <1>6, TenantTyped

LEMMA AnswerKeyTyped ==
    ASSUME Typed, Related, NEW r \in Requests, AnswerKey(r)
    PROVE  Typed' /\ Related'
<1>1. isRotation(r) /\ end(r) /\ UNCHANGED <<tables, calls, answers, asked, lapses>>
      /\ held' = [held EXCEPT ![request[r].tenant] = request[r].key]
  BY DEF AnswerKey, at, isRotation
<1>2. held' \in [Tenants -> Keys \cup {Nothing}]
  BY <1>1, Fields DEF Typed, TypeOK
<1> QED BY <1>1, <1>2, End, SameTables DEF tables, Typed, TypeOK, Related, EventRows

LEMMA CreateEndpointTyped ==
    ASSUME Typed, Related, NEW r \in Requests, NEW t \in Tenants, CreateEndpoint(r, t)
    PROVE  Typed' /\ Related'
<1>1. PICK url \in Urls, types \in Subscriptions :
          arrive(r, [pc |-> "createEndpoint", row |-> newRow(t, url, types)])
  BY DEF CreateEndpoint
<1> DEFINE call == [pc |-> "createEndpoint", row |-> newRow(t, url, types)]
<1>2. types \in (SUBSET Types) \ {{}}
  BY ApiAssumption
<1>3. call \in RequestStates /\ call.pc = "createEndpoint" /\ call.row.tenant = t
  BY <1>2, NewRow DEF Creation, RequestStates
<1>4. UNCHANGED <<tables, held, answers, asked, lapses>> /\ present(t) /\ arrive(r, call)
  BY <1>1, Present DEF CreateEndpoint, authenticated, owners
<1> HIDE DEF call
<1>5. ~isRotation(r)' /\ ~isUpdate(r)' /\ present(request'[r].row.tenant)
  BY <1>3, <1>4, Arrival DEF isRotation, isUpdate
<1> QED BY <1>3, <1>4, <1>5, Arrival, SameTables DEF tables, Typed, TypeOK, Related, EventRows

LEMMA InsertEndpointTyped ==
    ASSUME Typed, Related, NEW r \in Requests, InsertEndpoint(r)
    PROVE  Typed' /\ Related'
<1> DEFINE row == request[r].row
<1>1. /\ at(r, "createEndpoint") /\ end(r) /\ row \in EndpointRows /\ present(row.tenant)
      /\ UNCHANGED <<tenants, events, calls, held, answers, lapses>>
  BY Fields DEF InsertEndpoint, Related
<1>2. CASE urlTaken(row.tenant, row.url, Nothing)
  <2>1. UNCHANGED <<endpoints, asked>>
    BY <1>2 DEF InsertEndpoint
  <2> QED BY <1>1, <2>1, End, SameTables DEF Typed, TypeOK, Related, EventRows
<1>3. CASE ~urlTaken(row.tenant, row.url, Nothing)
  <2>1. PICK e \in Endpoints \ Existing :
            /\ endpoints' = [endpoints EXCEPT ![e] = row]
            /\ asked' = [asked EXCEPT ![e] = expectation(row.types)]
    BY <1>3 DEF InsertEndpoint
  <2>2. expectation(row.types) \in Expectations
    BY <1>1 DEF EndpointRows, expectation, Expectations
  <2>3. /\ asked' \in [Endpoints -> Expectations \cup {Nothing}]
        /\ \A o \in Existing \cup {e} : asked'[o] \in Expectations
    BY <2>1, <2>2 DEF Typed, Related, Existing
  <2>4. \A o \in Existing \ {e} : ~(endpoints[o].tenant = row.tenant /\ endpoints[o].url = row.url)
    BY <1>3, <2>1, ApiAssumption DEF urlTaken, EndpointsOf, Existing
  <2> QED BY <1>1, <2>1, <2>3, <2>4, End, EndpointTyped
<1> QED BY <1>2, <1>3

(* The updates of owners are of UpdateRecords.                                 *)
LEMMA UpdateFields ==
    ASSUME NEW u \in Updates \cup {softDelete}
    PROVE  /\ u \in UpdateRecords /\ u.active \in SUBSET BOOLEAN
           /\ u.types \in SUBSET ((SUBSET Types) \ {{}})
<1>1. softDelete \in UpdateRecords
  BY DEF softDelete, UpdateRecords, Field
<1>2. u \in UpdateRecords
  BY <1>1, ApiAssumption
<1> QED BY <1>2 DEF UpdateRecords, Field

LEMMA OneValue ==
    ASSUME NEW u \in UpdateRecords
    PROVE  /\ u.url \in SUBSET Urls /\ u.active \in SUBSET BOOLEAN
           /\ u.types \in SUBSET ((SUBSET Types) \ {{}})
           /\ \A x, y \in u.url : x = y
           /\ \A x, y \in u.active : x = y
           /\ \A x, y \in u.types : x = y
  BY DEF UpdateRecords, Field

(* What the beginning of an update does to the requests.                       *)
LEMMA Begun ==
    ASSUME Typed, Related, NEW r \in Requests, NEW t \in Tenants, NEW e \in Endpoints,
           NEW u \in Updates \cup {softDelete}, BeginUpdate(r, t, e, u)
    PROVE  /\ request' \in [Requests -> RequestStates] /\ e \in Existing
           /\ request'[r].pc = "commitUpdate" /\ request'[r].endpoint = e
           /\ request'[r].update = u /\ request'[r].before = asked[e]
           /\ request'[r].rows = IF u.types = {} THEN {} ELSE endpoints[e].types
           /\ request'[r].alone <=> overlapping(r, e) = {}
           /\ \A o \in Requests \ {r} :
                 IF o \in overlapping(r, e)
                 THEN /\ isUpdate(o)
                      /\ request'[o].pc = request[o].pc /\ request'[o].endpoint = request[o].endpoint
                      /\ request'[o].update = request[o].update /\ ~request'[o].alone
                 ELSE request'[o] = request[o]
           /\ asked' = [asked EXCEPT ![e].active = @ \cup u.active, ![e].types = @ \cup u.types]
           /\ calls' \in 0..Calls
           /\ UNCHANGED <<tables, held, answers, lapses>>
<1> DEFINE new == [pc |-> "commitUpdate", endpoint |-> e, update |-> u, before |-> asked[e],
                   rows |-> IF u.types = {} THEN {} ELSE endpoints[e].types,
                   alone |-> overlapping(r, e) = {}]
<1>1. /\ e \in Existing
      /\ request' = [o \in Requests |->
            IF o = r THEN new
            ELSE IF o \in overlapping(r, e) THEN [request[o] EXCEPT !.alone = FALSE]
            ELSE request[o]]
      /\ asked' = [asked EXCEPT ![e].active = @ \cup u.active, ![e].types = @ \cup u.types]
      /\ calls' = calls + 1 /\ calls < Calls
      /\ UNCHANGED <<tables, held, answers, lapses>>
  BY DEF BeginUpdate, requireOwnedEndpoint, EndpointsOf
<1>2. new \in Change
  <2>1. asked[e] \in Expectations /\ endpoints[e].types \in SUBSET Types /\ u \in UpdateRecords
    BY <1>1, RowFields, UpdateFields DEF Related
  <2>2. (overlapping(r, e) = {}) \in BOOLEAN
    OBVIOUS
  <2> QED BY <2>1, <2>2 DEF Change
<1>3. ASSUME NEW o \in overlapping(r, e)
      PROVE  LET q == [request[o] EXCEPT !.alone = FALSE]
             IN  /\ q \in Change /\ isUpdate(o) /\ ~q.alone
                 /\ q.pc = request[o].pc /\ q.endpoint = request[o].endpoint /\ q.update = request[o].update
  <2>1. isUpdate(o) /\ request[o] \in Change
    BY Kinds DEF overlapping
  <2> QED BY <2>1 DEF Change
<1>4. request' \in [Requests -> RequestStates]
  <2>1. ASSUME NEW o \in Requests PROVE request'[o] \in RequestStates
    BY <1>1, <1>2, <1>3, Kinds DEF RequestStates
  <2>2. request' = [o \in Requests |-> request'[o]]
    BY <1>1
  <2> QED BY <2>1, <2>2
<1>5. calls' \in 0..Calls
  BY <1>1, ApiAssumption DEF Typed, TypeOK
<1>6. request'[r] = new
  BY <1>1
<1>7. ASSUME NEW o \in Requests \ {r}
      PROVE  IF o \in overlapping(r, e)
             THEN /\ isUpdate(o)
                  /\ request'[o].pc = request[o].pc /\ request'[o].endpoint = request[o].endpoint
                  /\ request'[o].update = request[o].update /\ ~request'[o].alone
             ELSE request'[o] = request[o]
  BY <1>1, <1>3
<1> QED BY <1>1, <1>4, <1>5, <1>6, <1>7

(* What is expected of an endpoint once an update has begun.                   *)
LEMMA Expected ==
    ASSUME Typed, Related, NEW e \in Existing, NEW u \in Updates \cup {softDelete},
           asked' = [asked EXCEPT ![e].active = @ \cup u.active, ![e].types = @ \cup u.types]
    PROVE  /\ asked' \in [Endpoints -> Expectations \cup {Nothing}]
           /\ asked'[e] \in Expectations
           /\ asked'[e].active = asked[e].active \cup u.active
           /\ asked'[e].types = asked[e].types \cup u.types
           /\ \A f \in Endpoints \ {e} : asked'[f] = asked[f]
<1>1. asked[e] \in Expectations /\ e \in Endpoints
  BY DEF Related, Existing
<1>2. asked' = [asked EXCEPT ![e] =
          [asked[e] EXCEPT !.active = asked[e].active \cup u.active, !.types = asked[e].types \cup u.types]]
  BY <1>1 DEF Typed
<1>3. u.active \in SUBSET BOOLEAN /\ u.types \in SUBSET (SUBSET Types)
  BY UpdateFields
<1>4. asked'[e] =
          [asked[e] EXCEPT !.active = asked[e].active \cup u.active, !.types = asked[e].types \cup u.types]
  BY <1>1, <1>2 DEF Typed
<1>5. /\ asked'[e] \in Expectations /\ asked'[e].active = asked[e].active \cup u.active
      /\ asked'[e].types = asked[e].types \cup u.types
  <2>1. PICK a \in Expectations : a = asked[e]
    BY <1>1
  <2>2. PICK x \in SUBSET BOOLEAN, y \in SUBSET (SUBSET Types) :
            x = a.active \cup u.active /\ y = a.types \cup u.types
    BY <1>3 DEF Expectations
  <2>3. asked'[e] = [a EXCEPT !.active = x, !.types = y]
    BY <1>4, <2>1, <2>2
  <2>4. asked'[e].active = x /\ asked'[e].types = y
    BY <2>3 DEF Expectations
  <2>5. asked'[e] \in Expectations
    BY <2>3 DEF Expectations
  <2> QED BY <2>1, <2>2, <2>4, <2>5
<1>6. \A f \in Endpoints \ {e} : asked'[f] = asked[f]
  BY <1>1, <1>2 DEF Typed
<1>7. asked' \in [Endpoints -> Expectations \cup {Nothing}]
  BY <1>1, <1>2, <1>4, <1>5 DEF Typed
<1> QED BY <1>5, <1>6, <1>7

LEMMA BeginTyped ==
    ASSUME Typed, Related, NEW r \in Requests, NEW t \in Tenants, NEW e \in Endpoints,
           NEW u \in Updates \cup {softDelete}, BeginUpdate(r, t, e, u)
    PROVE  Typed' /\ Related'
<1>1. e \in Existing /\ asked' \in [Endpoints -> Expectations \cup {Nothing}]
      /\ \A f \in Existing : asked'[f] \in Expectations
  <2>1. e \in Existing
        /\ asked' = [asked EXCEPT ![e].active = @ \cup u.active, ![e].types = @ \cup u.types]
    BY Begun
  <2> QED BY <2>1, Expected DEF Related, Existing
<1>2. ASSUME NEW o \in Requests
      PROVE  \/ request'[o] = request[o]
             \/ /\ isRotation(o)' => present(request'[o].tenant)
                /\ at(o, "createEndpoint")' => present(request'[o].row.tenant)
                /\ isUpdate(o)' => request'[o].endpoint \in Existing
  BY <1>1, Begun, ZenonT(40) DEF Related, isRotation, at, isUpdate
<1> QED BY <1>1, <1>2, Begun, SameTables DEF tables, Typed, TypeOK, EventRows

(* What a commit does.                                                         *)
LEMMA Committed ==
    ASSUME Typed, Related, NEW r \in Requests, CommitUpdate(r)
    PROVE  LET e == request[r].endpoint
               u == request[r].update
           IN  /\ e \in Existing /\ u \in UpdateRecords /\ isUpdate(r)
               /\ endpoints' \in [Endpoints -> EndpointRows \cup {Nothing}]
               /\ endpoints'[e] \in EndpointRows /\ endpoints'[e].tenant = endpoints[e].tenant
               /\ endpoints'[e].types = replaced(r)
               /\ endpoints'[e].active = valueOr(u.active, endpoints[e].active)
               /\ endpoints'[e].url = valueOr(u.url, endpoints[e].url)
               /\ endpoints' = [endpoints EXCEPT ![e] = endpoints'[e]]
               /\ request' \in [Requests -> RequestStates]
               /\ request'[r].pc = "answerUpdate" /\ request'[r].endpoint = e
               /\ request'[r].update = u /\ request'[r].alone = request[r].alone
               /\ \A o \in Requests \ {r} :
                     IF o \in overlapping(r, e)
                     THEN /\ isUpdate(o)
                          /\ request'[o].pc = request[o].pc /\ request'[o].endpoint = request[o].endpoint
                          /\ request'[o].update = request[o].update /\ request'[o].alone = request[o].alone
                          /\ request'[o].before = request[o].before
                     ELSE request'[o] = request[o]
<1> DEFINE e == request[r].endpoint
           u == request[r].update
           row == [tenant |-> endpoints[e].tenant, url |-> valueOr(u.url, endpoints[e].url),
                   active |-> valueOr(u.active, endpoints[e].active), types |-> replaced(r)]
<1>1. /\ endpoints' = [endpoints EXCEPT ![e] = row]
      /\ request' = [o \in Requests |->
            IF o = r THEN [request[r] EXCEPT !.pc = "answerUpdate"]
            ELSE IF o \in overlapping(r, e) THEN [request[o] EXCEPT !.rows = @ \ request[r].rows]
            ELSE request[o]]
      /\ isUpdate(r) /\ at(r, "commitUpdate")
  <2>1. endpoints' = [endpoints EXCEPT ![e] = row]
    BY DEF CommitUpdate
  <2>2. isUpdate(r) /\ at(r, "commitUpdate")
    BY DEF CommitUpdate, at, isUpdate
  <2> QED BY <2>1, <2>2 DEF CommitUpdate
<1>2. e \in Existing /\ e \in Endpoints /\ u \in UpdateRecords /\ endpoints[e] \in EndpointRows
  BY <1>1, Fields, RowFields DEF Related
<1>3. replaced(r) \in (SUBSET Types) \ {{}}
  <2>1. endpoints[e].types \in (SUBSET Types) \ {{}}
    BY <1>2 DEF EndpointRows
  <2>2. u.types \in SUBSET ((SUBSET Types) \ {{}})
    BY <1>2, OneValue
  <2>3. u.types # {} => UNION u.types # {} /\ UNION u.types \subseteq Types
    BY <2>2
  <2> QED BY <2>1, <2>3 DEF replaced, spared
<1>4. valueOr(u.url, endpoints[e].url) \in Urls /\ valueOr(u.active, endpoints[e].active) \in BOOLEAN
  <2>1. u.url \in SUBSET Urls /\ u.active \in SUBSET BOOLEAN
    BY <1>2, OneValue
  <2>2. endpoints[e].url \in Urls /\ endpoints[e].active \in BOOLEAN
    BY <1>2 DEF EndpointRows
  <2> QED BY <2>1, <2>2 DEF valueOr
<1>5. /\ row \in EndpointRows /\ row.tenant = endpoints[e].tenant /\ row.types = replaced(r)
      /\ row.active = valueOr(u.active, endpoints[e].active) /\ row.url = valueOr(u.url, endpoints[e].url)
  BY <1>2, <1>3, <1>4 DEF EndpointRows
<1> HIDE DEF row
<1>6. /\ endpoints' \in [Endpoints -> EndpointRows \cup {Nothing}] /\ endpoints'[e] = row
      /\ endpoints' = [endpoints EXCEPT ![e] = endpoints'[e]]
  BY <1>1, <1>2, <1>5 DEF Typed, TypeOK
<1>7. request[r] \in Change
  BY <1>1, Kinds
<1>8. /\ request'[r] \in Change /\ request'[r].pc = "answerUpdate" /\ request'[r].endpoint = e
      /\ request'[r].update = u /\ request'[r].alone = request[r].alone
  BY <1>1, <1>7 DEF Change
<1>9. ASSUME NEW o \in overlapping(r, e), o # r
      PROVE  /\ isUpdate(o) /\ request'[o] \in Change
             /\ request'[o].pc = request[o].pc /\ request'[o].endpoint = request[o].endpoint
             /\ request'[o].update = request[o].update /\ request'[o].alone = request[o].alone
             /\ request'[o].before = request[o].before
  <2>1. isUpdate(o) /\ request[o] \in Change /\ o \in Requests
    BY Kinds DEF overlapping
  <2>2. request'[o] = [request[o] EXCEPT !.rows = request[o].rows \ request[r].rows]
    BY <1>1, <1>9, <2>1
  <2> QED BY <2>1, <2>2 DEF Change
<1>10. request' \in [Requests -> RequestStates]
  <2>1. ASSUME NEW o \in Requests PROVE request'[o] \in RequestStates
    BY <1>1, <1>8, <1>9, Kinds DEF RequestStates
  <2>2. request' = [o \in Requests |-> request'[o]]
    BY <1>1
  <2> QED BY <2>1, <2>2
<1> QED BY <1>1, <1>2, <1>5, <1>6, <1>8, <1>9, <1>10

LEMMA CommitTyped ==
    ASSUME Typed, Related, NEW r \in Requests, CommitUpdate(r)
    PROVE  Typed' /\ Related'
<1> DEFINE e == request[r].endpoint
           u == request[r].update
<1>1. e \in Existing /\ u \in UpdateRecords /\ ~conflicts(r)
      /\ UNCHANGED <<tenants, events, calls, held, answers, asked, lapses>>
  BY Committed DEF CommitUpdate, owners
<1>2. PICK row \in EndpointRows :
          /\ row.tenant = endpoints[e].tenant /\ row.url = valueOr(u.url, endpoints[e].url)
          /\ endpoints' = [endpoints EXCEPT ![e] = row]
  BY Committed
<1>3. present(row.tenant)
  BY <1>1, <1>2 DEF Related
<1>4. ASSUME NEW o \in Existing \ {e}, endpoints[o].tenant = row.tenant, endpoints[o].url = row.url
      PROVE  FALSE
  <2>1. CASE u.url = {}
    BY <1>1, <1>2, <1>4, <2>1 DEF valueOr, Typed, TypeOK
  <2>2. CASE u.url # {}
    <3>1. row.url \in u.url
      BY <1>2, <2>2 DEF valueOr
    <3> QED BY <1>1, <1>2, <1>4, <3>1 DEF conflicts, urlTaken, EndpointsOf
  <2> QED BY <2>1, <2>2
<1>5. /\ request' \in [Requests -> RequestStates] /\ isUpdate(r)
      /\ \A o \in Requests : \/ request'[o] = request[o]
                             \/ /\ request'[o].pc \in {"commitUpdate", "answerUpdate"}
                                /\ request'[o].endpoint \in Existing
  BY Committed DEF Related, isUpdate
<1>6. \A o \in Requests : \/ request'[o] = request[o]
                          \/ /\ ~at(o, "createEndpoint")' /\ ~isRotation(o)'
                             /\ isUpdate(o)' => request'[o].endpoint \in Existing
  BY <1>5 DEF at, isRotation
<1>7. asked' \in [Endpoints -> Expectations \cup {Nothing}]
      /\ \A o \in Existing \cup {e} : asked'[o] \in Expectations
  BY <1>1 DEF Typed, Related
<1> QED BY <1>1, <1>2, <1>3, <1>4, <1>5, <1>6, <1>7, EndpointTyped DEF Existing

LEMMA SettleTyped ==
    ASSUME Typed, Related, NEW r \in Requests, RefuseUpdate(r) \/ AnswerUpdate(r)
    PROVE  Typed' /\ Related'
<1>1. /\ isUpdate(r) /\ end(r) /\ UNCHANGED <<tables, calls, held, answers, lapses>>
  BY DEF RefuseUpdate, AnswerUpdate, at, isUpdate
<1>2. PICK e \in Existing : e = request[r].endpoint /\ asked[e] \in Expectations
  BY <1>1 DEF Related
<1>3. PICK a \in Expectations : asked' = [asked EXCEPT ![e] = a]
  <2>1. CASE RefuseUpdate(r)
    <3>1. asked = [asked EXCEPT ![e] = asked[e]]
      BY DEF Typed
    <3> QED BY <1>1, <1>2, <2>1, <3>1, Fields DEF RefuseUpdate
  <2>2. CASE AnswerUpdate(r)
    <3>1. asked = [asked EXCEPT ![e] = asked[e]]
      BY DEF Typed
    <3>2. settledAs(r) \in Expectations
      <4>1. request[r].update.active \in SUBSET BOOLEAN /\ request[r].update.types \in SUBSET (SUBSET Types)
        BY <1>1, Fields, OneValue
      <4> QED BY <1>2, <4>1 DEF settledAs, Expectations
    <3> QED BY <1>2, <2>2, <3>1, <3>2 DEF AnswerUpdate
  <2> QED BY <2>1, <2>2
<1>4. /\ asked' \in [Endpoints -> Expectations \cup {Nothing}]
      /\ \A f \in Existing : asked'[f] \in Expectations
  BY <1>3 DEF Typed, Related, Existing
<1> QED BY <1>1, <1>4, End, SameTables DEF tables, Typed, TypeOK, EventRows

LEMMA SubmitTyped ==
    ASSUME Typed, Related, NEW r \in Requests, NEW t \in Tenants, Submit(r, t)
    PROVE  Typed' /\ Related'
<1>1. PICK k \in IdempotencyKeys, type \in Types \ {Wildcard} :
          arrive(r, [pc |-> "read", tenant |-> t, key |-> k, type |-> type, targets |-> {}])
  BY DEF Submit
<1> DEFINE call == [pc |-> "read", tenant |-> t, key |-> k, type |-> type, targets |-> {}]
<1>2. call \in RequestStates /\ call.pc = "read"
  BY DEF Ingestion, RequestStates
<1>3. arrive(r, call) /\ UNCHANGED <<tables, held, answers, asked, lapses>>
  BY <1>1 DEF Submit, owners
<1> HIDE DEF call
<1>4. ~at(r, "createEndpoint")' /\ ~isUpdate(r)' /\ ~isRotation(r)'
  BY <1>2, <1>3, Arrival DEF at, isUpdate, isRotation
<1> QED BY <1>2, <1>3, <1>4, Arrival, SameTables DEF tables, Typed, TypeOK, Related, EventRows

(* The request after the endpoints are read.                                   *)
LEMMA WasRead ==
    ASSUME Typed, NEW r \in Requests, ReadEndpoints(r)
    PROVE  /\ request' \in [Requests -> RequestStates] /\ isIngestion(r)
           /\ \A o \in Requests \ {r} : request'[o] = request[o]
           /\ request'[r].pc = "create"
           /\ request'[r].targets = subscribed(request[r].tenant, request[r].type)
           /\ request'[r].tenant = request[r].tenant /\ request'[r].key = request[r].key
           /\ request'[r].type = request[r].type
           /\ UNCHANGED <<tables, calls, held, answers, asked, lapses>>
<1>1. isIngestion(r) /\ UNCHANGED <<tables, calls, held, answers, asked, lapses>>
  BY DEF ReadEndpoints, at, isIngestion, isAnswering, owners
<1>2. PICK S \in SUBSET Endpoints : S = subscribed(request[r].tenant, request[r].type)
  BY DEF subscribed, EndpointsOf, Existing
<1>3. request[r] \in Ingestion
  BY <1>1, Kinds
<1>4. request' = [request EXCEPT ![r] = [request[r] EXCEPT !.pc = "create", !.targets = S]]
  BY <1>2 DEF ReadEndpoints, Typed
<1>5. [request[r] EXCEPT !.pc = "create", !.targets = S] \in Ingestion
  BY <1>3 DEF Ingestion
<1>6. /\ [request[r] EXCEPT !.pc = "create", !.targets = S].pc = "create"
      /\ [request[r] EXCEPT !.pc = "create", !.targets = S].targets = S
      /\ [request[r] EXCEPT !.pc = "create", !.targets = S].tenant = request[r].tenant
      /\ [request[r] EXCEPT !.pc = "create", !.targets = S].key = request[r].key
      /\ [request[r] EXCEPT !.pc = "create", !.targets = S].type = request[r].type
  BY <1>3 DEF Ingestion
<1> QED BY <1>1, <1>2, <1>4, <1>5, <1>6 DEF Typed, RequestStates

LEMMA ReadTyped ==
    ASSUME Typed, Related, NEW r \in Requests, ReadEndpoints(r)
    PROVE  Typed' /\ Related'
<1>1. ~at(r, "createEndpoint")' /\ ~isUpdate(r)' /\ ~isRotation(r)'
  BY WasRead DEF at, isUpdate, isRotation
<1> QED BY <1>1, WasRead, SameTables DEF tables, Typed, TypeOK, Related, EventRows

(* An event is accepted, or found accepted.                                    *)
LEMMA Created ==
    ASSUME Typed, Accepted, NEW r \in Requests, CreateForTenant(r)
    PROVE  /\ request' \in [Requests -> RequestStates] /\ isIngestion(r)
           /\ \A o \in Requests \ {r} : request'[o] = request[o]
           /\ request'[r].pc = IF isRepeat(r) THEN "repeated" ELSE "accepted"
           /\ request'[r].tenant = request[r].tenant /\ request'[r].key = request[r].key
           /\ isRepeat(r) => UNCHANGED <<events, answers>>
           /\ ~isRepeat(r) =>
                 /\ \E x \in EventRows :
                       /\ x.tenant = request[r].tenant /\ x.key = request[r].key
                       /\ x.targets = request[r].targets /\ events' = events \cup {x}
                 /\ answers' = [answers EXCEPT ![request[r].tenant][request[r].key].accepted = @ + 1]
                 /\ answers[request[r].tenant][request[r].key] = NoDeliveries
           /\ UNCHANGED <<tenants, endpoints, calls, held, asked, lapses>>
<1>1. isIngestion(r) /\ UNCHANGED <<tenants, endpoints, calls, held, asked, lapses>>
  BY DEF CreateForTenant, at, isIngestion, isAnswering
<1>2. CASE isRepeat(r)
  BY <1>1, <1>2, Goto DEF CreateForTenant
<1>3. CASE ~isRepeat(r)
  <2>1. goto(r, "accepted")
        /\ answers' = [answers EXCEPT ![request[r].tenant][request[r].key].accepted = @ + 1]
    BY <1>3 DEF CreateForTenant
  <2>2. \E x \in EventRows :
            /\ x.tenant = request[r].tenant /\ x.key = request[r].key
            /\ x.targets = request[r].targets /\ events' = events \cup {x}
    BY <1>1, <1>3, Fields DEF CreateForTenant, EventRows
  <2>3. answers[request[r].tenant][request[r].key] = NoDeliveries
    BY <1>1, <1>3, Fields DEF Accepted, isRepeat, eventOf, eventsOf
  <2> QED BY <1>1, <1>3, <2>1, <2>2, <2>3, Goto
<1> QED BY <1>2, <1>3

(* One count of the answers changes.                                           *)
LEMMA Counted ==
    ASSUME Typed, NEW t \in Tenants, NEW k \in IdempotencyKeys, NEW c \in Counts
    PROVE  /\ [answers EXCEPT ![t][k] = c] \in [Tenants -> [IdempotencyKeys -> Counts]]
           /\ \A u \in Tenants, l \in IdempotencyKeys : [answers EXCEPT ![t][k] = c][u][l] =
                  IF u = t /\ l = k THEN c ELSE answers[u][l]
  BY DEF Typed

LEMMA FirstCount == [NoDeliveries EXCEPT !.accepted = NoDeliveries.accepted + 1] \in Counts
<1>1. PICK c \in Counts : c = NoDeliveries /\ c.accepted = 0
  <2>1. NoDeliveries \in Counts
    BY DEF NoDeliveries, Counts
  <2>2. NoDeliveries.accepted = 0
    BY DEF NoDeliveries
  <2> QED BY <2>1, <2>2
<1>2. [c EXCEPT !.accepted = 0 + 1] \in Counts
  BY DEF Counts
<1> QED BY <1>1, <1>2

LEMMA CreateForTenantTyped ==
    ASSUME Typed, Related, Accepted, NEW r \in Requests, CreateForTenant(r)
    PROVE  Typed' /\ Related'
<1>1. ~at(r, "createEndpoint")' /\ ~isUpdate(r)' /\ ~isRotation(r)'
  BY Created DEF at, isUpdate, isRotation
<1>2. answers' \in [Tenants -> [IdempotencyKeys -> Counts]] /\ events' \subseteq EventRows
  <2>1. CASE isRepeat(r)
    BY <2>1, Created DEF Typed, TypeOK, EventRows
  <2>2. CASE ~isRepeat(r)
    <3>1. PICK t \in Tenants, k \in IdempotencyKeys : t = request[r].tenant /\ k = request[r].key
      BY Created, Fields
    <3>2. answers' = [answers EXCEPT ![t][k] = [answers[t][k] EXCEPT !.accepted = answers[t][k].accepted + 1]]
      BY <2>2, <3>1, Created
    <3>3. [answers[t][k] EXCEPT !.accepted = answers[t][k].accepted + 1] \in Counts
      <4>1. answers[t][k] = NoDeliveries
        BY <2>2, <3>1, Created
      <4> QED BY <4>1, FirstCount
    <3>4. events' \subseteq EventRows
      <4>1. PICK x \in EventRows : events' = events \cup {x}
        BY <2>2, Created
      <4>2. events \subseteq EventRows
        BY DEF Typed, TypeOK, EventRows
      <4> QED BY <4>1, <4>2
    <3> QED BY <3>2, <3>3, <3>4, Counted
  <2> QED BY <2>1, <2>2
<1>3. /\ request' \in [Requests -> RequestStates] /\ \A o \in Requests \ {r} : request'[o] = request[o]
      /\ UNCHANGED <<tenants, endpoints, calls, held, asked, lapses>>
  BY Created
<1>4. /\ held' \in [Tenants -> Keys \cup {Nothing}] /\ lapses' \subseteq Tenants /\ calls' \in 0..Calls
      /\ asked' \in [Endpoints -> Expectations \cup {Nothing}]
      /\ \A e \in Existing : asked'[e] \in Expectations
  BY <1>3 DEF Typed, TypeOK, Related
<1> QED BY <1>1, <1>2, <1>3, <1>4, SameTables

LEMMA AnswerSubmitTyped ==
    ASSUME Typed, Related, NEW r \in Requests, AnswerSubmit(r)
    PROVE  Typed' /\ Related'
<1>1. isIngestion(r) /\ end(r) /\ UNCHANGED <<tables, calls, held, asked, lapses>>
  BY DEF AnswerSubmit, isIngestion, isAnswering
<1>2. PICK t \in Tenants, k \in IdempotencyKeys : t = request[r].tenant /\ k = request[r].key
  BY <1>1, Fields
<1>3. answers' \in {answers, [answers EXCEPT ![t][k] = [answers[t][k] EXCEPT !.answered = TRUE]]}
  BY <1>2 DEF AnswerSubmit
<1>4. [answers[t][k] EXCEPT !.answered = TRUE] \in Counts
  <2>1. PICK c \in Counts : c = answers[t][k]
    BY DEF Typed
  <2>2. [c EXCEPT !.answered = TRUE] \in Counts
    BY DEF Counts
  <2> QED BY <2>1, <2>2
<1>5. answers' \in [Tenants -> [IdempotencyKeys -> Counts]]
  <2>1. CASE answers' = answers
    BY <2>1 DEF Typed
  <2>2. CASE answers' = [answers EXCEPT ![t][k] = [answers[t][k] EXCEPT !.answered = TRUE]]
    BY <1>4, <2>2, Counted
  <2> QED BY <1>3, <2>1, <2>2
<1> QED BY <1>1, <1>5, End, SameTables DEF tables, Typed, TypeOK, Related, EventRows

LEMMA CleanupTyped ==
    ASSUME Typed, Related, cleanupOldEvents
    PROVE  Typed' /\ Related'
<1>1. PICK x \in events : events' = events \ {x}
                          /\ answers' = [answers EXCEPT ![x.tenant][x.key] = NoDeliveries]
  BY DEF cleanupOldEvents
<1>2. NoDeliveries \in Counts /\ x.tenant \in Tenants /\ x.key \in IdempotencyKeys
  BY DEF NoDeliveries, Counts, Typed, TypeOK
<1>3. answers' \in [Tenants -> [IdempotencyKeys -> Counts]] /\ events' \subseteq EventRows
  BY <1>1, <1>2, Counted DEF Typed, TypeOK, EventRows
<1> QED BY <1>3, SameTables DEF cleanupOldEvents, Typed, TypeOK, Related

LEMMA FailTyped ==
    ASSUME Typed, Related, NEW r \in Requests, Fail(r)
    PROVE  Typed' /\ Related'
<1>1. end(r) /\ UNCHANGED <<tables, calls, held, answers, asked>>
  BY DEF Fail
<1>2. lapses' \subseteq Tenants
  BY Fields DEF Fail, Typed
<1> QED BY <1>1, <1>2, End, SameTables DEF tables, Typed, TypeOK, Related, EventRows

LEMMA TypedStep == Typed /\ Related /\ Accepted /\ [Next]_vars => Typed' /\ Related'
<1> SUFFICES ASSUME Typed, Related, Accepted, [Next]_vars PROVE Typed' /\ Related'
  OBVIOUS
<1>1. CASE UNCHANGED vars
  BY <1>1, SameTables DEF vars, Typed, TypeOK, Related, EventRows
<1>2. ASSUME NEW r \in Requests, RequestStep(r) PROVE Typed' /\ Related'
  BY <1>2, WriteKeyTyped, AnswerKeyTyped, InsertEndpointTyped, CommitTyped, SettleTyped, ReadTyped,
     CreateForTenantTyped, AnswerSubmitTyped, FailTyped, RotateKeyTyped, SubmitTyped,
     CreateEndpointTyped, BeginTyped DEF RequestStep
<1> QED BY <1>1, <1>2, CreateTenantTyped, DeleteTyped, CleanupTyped DEF Next

-----------------------------------------------------------------------------
(* What each kind of request leaves alone.                                     *)
LEMMA BegunKinds ==
    ASSUME Typed, Related, NEW r \in Requests, NEW t \in Tenants, NEW e \in Endpoints,
           NEW u \in Updates \cup {softDelete}, BeginUpdate(r, t, e, u)
    PROVE  /\ request'[r].pc = "commitUpdate"
           /\ \A o \in Requests \ {r} : \/ request'[o] = request[o]
                                        \/ isUpdate(o) /\ request'[o].pc = request[o].pc
<1>1. ASSUME NEW o \in Requests \ {r}
      PROVE  \/ request'[o] = request[o]
             \/ isUpdate(o) /\ request'[o].pc = request[o].pc
  <2>1. CASE o \in overlapping(r, e)
    <3>1. isUpdate(o)
      BY <2>1 DEF overlapping
    <3>2. request'[o].pc = request[o].pc
      BY <2>1, Begun
    <3> QED BY <3>1, <3>2
  <2>2. CASE o \notin overlapping(r, e)
    <3>1. request'[o] = request[o]
      BY <2>2, Begun, ZenonT(40)
    <3> QED BY <3>1
  <2> QED BY <2>1, <2>2
<1> QED BY <1>1, Begun

LEMMA RotationSteps ==
    ASSUME Typed, Related, NEW r \in Requests,
           (\E t \in Tenants : RotateKey(r, t)) \/ WriteKey(r) \/ AnswerKey(r)
    PROVE  /\ UNCHANGED <<endpoints, events, answers, asked>>
           /\ \A o \in Requests : \/ request'[o] = request[o]
                                  \/ /\ ~isUpdate(o) /\ ~isIngestion(o)
                                     /\ ~isUpdate(o)' /\ ~isIngestion(o)'
<1>1. ASSUME NEW t \in Tenants, RotateKey(r, t)
      PROVE  /\ UNCHANGED <<endpoints, events, answers, asked>>
             /\ \A o \in Requests \ {r} : request'[o] = request[o]
             /\ request[r].pc = "idle" /\ request'[r].pc = "writeKey"
  <2> DEFINE call == [pc |-> "writeKey", tenant |-> t, key |-> generateApiKey]
  <2>1. call \in RequestStates /\ call.pc = "writeKey"
    BY FreeKey DEF Rotation, RequestStates
  <2>2. arrive(r, call) /\ UNCHANGED <<endpoints, events, answers, asked>>
    BY <1>1 DEF RotateKey, tables
  <2> HIDE DEF call
  <2> QED BY <2>1, <2>2, Arrival DEF open
<1>2. CASE WriteKey(r)
  <2>1. isRotation(r) /\ goto(r, "answerKey") /\ UNCHANGED <<endpoints, events, answers, asked>>
    BY <1>2 DEF WriteKey, owners, at, isRotation
  <2> QED BY <2>1, Goto DEF isRotation, isUpdate, isIngestion, isAnswering
<1>3. CASE AnswerKey(r)
  <2>1. isRotation(r) /\ end(r) /\ UNCHANGED <<endpoints, events, answers, asked>>
    BY <1>3 DEF AnswerKey, tables, at, isRotation
  <2> QED BY <2>1, End DEF isRotation, isUpdate, isIngestion, isAnswering
<1> QED BY <1>1, <1>2, <1>3 DEF isUpdate, isIngestion, isAnswering

LEMMA EndpointSteps ==
    ASSUME Typed, Related, NEW r \in Requests,
           \/ InsertEndpoint(r) \/ CommitUpdate(r) \/ RefuseUpdate(r) \/ AnswerUpdate(r)
           \/ \E t \in Tenants : CreateEndpoint(r, t)
           \/ \E t \in Tenants, e \in Endpoints, u \in Updates \cup {softDelete} : BeginUpdate(r, t, e, u)
    PROVE  /\ UNCHANGED <<tenants, events, held, answers, lapses>>
           /\ \A o \in Requests : \/ request'[o] = request[o]
                                  \/ /\ ~isRotation(o) /\ ~isIngestion(o)
                                     /\ ~isRotation(o)' /\ ~isIngestion(o)'
<1>1. CASE InsertEndpoint(r) \/ RefuseUpdate(r) \/ AnswerUpdate(r)
  <2>1. /\ end(r) /\ ~isRotation(r) /\ ~isIngestion(r)
        /\ UNCHANGED <<tenants, events, held, answers, lapses>>
    BY <1>1 DEF InsertEndpoint, RefuseUpdate, AnswerUpdate, tables, at, isRotation, isIngestion, isAnswering
  <2> QED BY <2>1, End
<1>2. CASE CommitUpdate(r)
  <2>1. UNCHANGED <<tenants, events, held, answers, lapses>>
    BY <1>2 DEF CommitUpdate, owners
  <2>2. /\ isUpdate(r) /\ request'[r].pc = "answerUpdate"
        /\ \A o \in Requests \ {r} : \/ request'[o] = request[o]
                                     \/ isUpdate(o) /\ request'[o].pc = request[o].pc
    BY <1>2, Committed
  <2> QED BY <2>1, <2>2 DEF isUpdate, isRotation, isIngestion, isAnswering
<1>3. ASSUME NEW t \in Tenants, CreateEndpoint(r, t)
      PROVE  /\ UNCHANGED <<tenants, events, held, answers, lapses>>
             /\ \A o \in Requests \ {r} : request'[o] = request[o]
             /\ request[r].pc = "idle" /\ request'[r].pc = "createEndpoint"
  <2>1. PICK url \in Urls, types \in Subscriptions :
            arrive(r, [pc |-> "createEndpoint", row |-> newRow(t, url, types)])
    BY <1>3 DEF CreateEndpoint
  <2> DEFINE call == [pc |-> "createEndpoint", row |-> newRow(t, url, types)]
  <2>2. types \in (SUBSET Types) \ {{}}
    BY ApiAssumption
  <2>3. call \in RequestStates /\ call.pc = "createEndpoint"
    BY <2>2, NewRow DEF Creation, RequestStates
  <2>4. arrive(r, call) /\ UNCHANGED <<tenants, events, held, answers, lapses>>
    BY <1>3, <2>1 DEF CreateEndpoint, tables, owners
  <2> HIDE DEF call
  <2> QED BY <2>3, <2>4, Arrival DEF open
<1>4. ASSUME NEW t \in Tenants, NEW e \in Endpoints, NEW u \in Updates \cup {softDelete},
             BeginUpdate(r, t, e, u)
      PROVE  /\ UNCHANGED <<tenants, events, held, answers, lapses>>
             /\ request[r].pc = "idle" /\ request'[r].pc = "commitUpdate"
             /\ \A o \in Requests \ {r} : \/ request'[o] = request[o]
                                          \/ isUpdate(o) /\ request'[o].pc = request[o].pc
  <2>1. request[r].pc = "idle" /\ UNCHANGED <<tenants, events, held, answers, lapses>>
    BY <1>4 DEF tables, BeginUpdate, open
  <2> QED BY <1>4, <2>1, BegunKinds
<1> QED BY <1>1, <1>2, <1>3, <1>4 DEF isRotation, isIngestion, isAnswering, isUpdate

LEMMA IngestionSteps ==
    ASSUME Typed, Related, Accepted, NEW r \in Requests,
           (\E t \in Tenants : Submit(r, t)) \/ ReadEndpoints(r) \/ CreateForTenant(r) \/ AnswerSubmit(r)
    PROVE  /\ UNCHANGED <<tenants, endpoints, held, asked, lapses>>
           /\ \A o \in Requests \ {r} : request'[o] = request[o]
           /\ ~isRotation(r) /\ ~isUpdate(r) /\ ~isRotation(r)' /\ ~isUpdate(r)'
           /\ (\E t \in Tenants : Submit(r, t)) =>
                 UNCHANGED <<events, answers>> /\ request'[r].pc = "read"
<1>1. ASSUME NEW t \in Tenants, Submit(r, t)
      PROVE  /\ UNCHANGED <<tenants, endpoints, events, held, answers, asked, lapses>>
             /\ \A o \in Requests \ {r} : request'[o] = request[o]
             /\ request[r].pc = "idle" /\ request'[r].pc = "read"
  <2>1. PICK k \in IdempotencyKeys, type \in Types \ {Wildcard} :
            arrive(r, [pc |-> "read", tenant |-> t, key |-> k, type |-> type, targets |-> {}])
    BY <1>1 DEF Submit
  <2> DEFINE call == [pc |-> "read", tenant |-> t, key |-> k, type |-> type, targets |-> {}]
  <2>2. call \in RequestStates /\ call.pc = "read"
    BY DEF Ingestion, RequestStates
  <2>3. arrive(r, call) /\ UNCHANGED <<tenants, endpoints, events, held, answers, asked, lapses>>
    BY <1>1, <2>1 DEF Submit, tables, owners
  <2> HIDE DEF call
  <2> QED BY <2>2, <2>3, Arrival DEF open
<1>2. CASE ReadEndpoints(r)
  <2>1. request[r].pc = "read"
    BY <1>2 DEF ReadEndpoints, at
  <2> QED BY <1>1, <1>2, <2>1, WasRead DEF tables, isRotation, isUpdate
<1>3. CASE CreateForTenant(r)
  <2>1. request[r].pc = "create"
    BY <1>3 DEF CreateForTenant, at
  <2> QED BY <1>1, <1>3, <2>1, Created DEF isRotation, isUpdate
<1>4. CASE AnswerSubmit(r)
  <2>1. request[r].pc \in {"accepted", "repeated"} /\ end(r)
        /\ UNCHANGED <<tenants, endpoints, held, asked, lapses>>
    BY <1>4 DEF AnswerSubmit, isAnswering, tables
  <2> QED BY <1>1, <2>1, End DEF isRotation, isUpdate
<1> QED BY <1>1, <1>2, <1>3, <1>4 DEF isRotation, isUpdate

-----------------------------------------------------------------------------
(* A request that is not outlived was not before, and its event is still there. *)
Remembered ==
    \A r \in Requests : isAnswering(r)' /\ r \notin outlived' =>
        r \notin outlived /\ eventOf(r) \subseteq events'

LEMMA Remembers == observe \/ UNCHANGED vars => Remembered
<1>1. observe => Remembered
  BY DEF observe, Remembered
<1>2. UNCHANGED vars => Remembered
  BY DEF vars, Remembered, eventOf
<1> QED BY <1>1, <1>2

(* No event comes or goes, and no request learns of one.                       *)
LEMMA SameEvents ==
    ASSUME Accepted, Remembered, UNCHANGED <<events, answers>>,
           \A r \in Requests : request'[r].pc \in {"accepted", "repeated"} => request'[r] = request[r]
    PROVE  Accepted'
<1>1. \A t, k : eventsOf(t, k)' = eventsOf(t, k)
  BY DEF eventsOf
<1>2. ASSUME NEW r \in Requests, isAnswering(r)', r \notin outlived' PROVE eventOf(r)' # {}
  BY <1>2 DEF Accepted, eventOf, Remembered, isAnswering
<1> QED BY <1>1, <1>2 DEF Accepted

LEMMA CreateAccepted ==
    ASSUME Typed, Related, Accepted, Remembered, NEW r \in Requests, CreateForTenant(r)
    PROVE  Accepted'
<1>1. CASE isRepeat(r)
  <2>1. ASSUME NEW o \in Requests, isAnswering(o)', o \notin outlived' PROVE eventOf(o)' # {}
    <3>1. eventOf(o)' = eventOf(o)
      <4>1. events' = events
        BY <1>1, Created
      <4>2. request'[o].tenant = request[o].tenant /\ request'[o].key = request[o].key
        BY Created
      <4> QED BY <4>1, <4>2 DEF eventOf
    <3>2. CASE o = r
      BY <1>1, <3>1, <3>2 DEF isRepeat
    <3>3. CASE o # r
      <4>1. isAnswering(o) /\ o \notin outlived
        BY <2>1, <3>3, Created DEF Remembered, isAnswering
      <4> QED BY <3>1, <4>1 DEF Accepted
    <3> QED BY <3>2, <3>3
  <2>2. events' = events /\ answers' = answers
    BY <1>1, Created
  <2>3. \A t, k : eventsOf(t, k)' = eventsOf(t, k)
    BY <2>2 DEF eventsOf
  <2> QED BY <2>1, <2>2, <2>3 DEF Accepted
<1>2. CASE ~isRepeat(r)
  <2>1. PICK t \in Tenants, k \in IdempotencyKeys : t = request[r].tenant /\ k = request[r].key
    BY Created, Fields
  <2>2. PICK x \in EventRows : x.tenant = t /\ x.key = k /\ events' = events \cup {x}
    BY <1>2, <2>1, Created
  <2>3. \A y \in events : ~(y.tenant = t /\ y.key = k)
    BY <1>2, <2>1 DEF isRepeat, eventOf
  <2>4. \A y, z \in events' : y.tenant = z.tenant /\ y.key = z.key => y = z
    BY <2>2, <2>3 DEF Accepted
  <2>5. ASSUME NEW u \in Tenants, NEW l \in IdempotencyKeys, eventsOf(u, l)' = {}
        PROVE  answers'[u][l] = NoDeliveries
    <3>1. ~(u = t /\ l = k) /\ eventsOf(u, l) = {}
      BY <2>2, <2>5 DEF eventsOf
    <3>2. PICK c \in Counts : answers' = [answers EXCEPT ![t][k] = c]
      BY <1>2, <2>1, Created, FirstCount
    <3> QED BY <3>1, <3>2, Counted DEF Accepted
  <2>6. ASSUME NEW o \in Requests, isAnswering(o)', o \notin outlived' PROVE eventOf(o)' # {}
    <3>1. CASE o = r
      <4>1. request'[r].tenant = t /\ request'[r].key = k
        BY <2>1, Created
      <4> QED BY <2>2, <3>1, <4>1 DEF eventOf
    <3>2. CASE o # r
      <4>1. request'[o] = request[o]
        BY <3>2, Created
      <4> QED BY <2>2, <2>6, <4>1 DEF Accepted, Remembered, isAnswering, eventOf
    <3> QED BY <3>1, <3>2
  <2> QED BY <2>4, <2>5, <2>6 DEF Accepted
<1> QED BY <1>1, <1>2

LEMMA AnswerAccepted ==
    ASSUME Typed, Related, Accepted, Remembered, NEW r \in Requests, AnswerSubmit(r)
    PROVE  Accepted'
<1>1. /\ isIngestion(r) /\ end(r) /\ isAnswering(r) /\ events' = events
  BY DEF AnswerSubmit, isIngestion, tables
<1>2. PICK t \in Tenants, k \in IdempotencyKeys : t = request[r].tenant /\ k = request[r].key
  BY <1>1, Fields
<1>3. ASSUME NEW o \in Requests, isAnswering(o)', o \notin outlived' PROVE eventOf(o)' # {}
  BY <1>1, <1>3, End DEF Accepted, Remembered, eventOf, isAnswering
<1>4. CASE r \in outlived
  <2>1. answers' = answers
    BY <1>4 DEF AnswerSubmit
  <2> QED BY <1>1, <1>3, <2>1 DEF Accepted, eventsOf
<1>5. CASE r \notin outlived
  <2>1. PICK c \in Counts : answers' = [answers EXCEPT ![t][k] = c]
    <3>1. answers' = [answers EXCEPT ![t][k] = [answers[t][k] EXCEPT !.answered = TRUE]]
      BY <1>2, <1>5 DEF AnswerSubmit
    <3>2. PICK c \in Counts : c = answers[t][k]
      BY DEF Typed
    <3>3. [c EXCEPT !.answered = TRUE] \in Counts
      BY DEF Counts
    <3> QED BY <3>1, <3>2, <3>3
  <2>2. eventsOf(t, k) # {}
    BY <1>1, <1>2, <1>5 DEF Accepted, eventOf, eventsOf
  <2>3. ASSUME NEW u \in Tenants, NEW l \in IdempotencyKeys, eventsOf(u, l)' = {}
        PROVE  answers'[u][l] = NoDeliveries
    <3>1. ~(u = t /\ l = k) /\ eventsOf(u, l) = {}
      BY <1>1, <2>2, <2>3 DEF eventsOf
    <3> QED BY <2>1, <3>1, Counted DEF Accepted
  <2> QED BY <1>1, <1>3, <2>3 DEF Accepted
<1> QED BY <1>4, <1>5

(* An event is removed with what was answered of it, and who is still to       *)
(* answer of it is outlived.                                                   *)
LEMMA CleanupAccepted ==
    ASSUME Typed, Related, Accepted, Remembered, cleanupOldEvents
    PROVE  Accepted'
<1>1. PICK x \in events :
          events' = events \ {x} /\ answers' = [answers EXCEPT ![x.tenant][x.key] = NoDeliveries]
  BY DEF cleanupOldEvents
<1>2. NoDeliveries \in Counts /\ x.tenant \in Tenants /\ x.key \in IdempotencyKeys /\ request' = request
  BY DEF NoDeliveries, Counts, Typed, TypeOK, cleanupOldEvents
<1>3. ASSUME NEW u \in Tenants, NEW l \in IdempotencyKeys, eventsOf(u, l)' = {}
      PROVE  answers'[u][l] = NoDeliveries
  <2>1. CASE u = x.tenant /\ l = x.key
    BY <1>1, <1>2, <2>1, Counted
  <2>2. CASE ~(u = x.tenant /\ l = x.key)
    <3>1. eventsOf(u, l) = {}
      BY <1>1, <1>3, <2>2 DEF eventsOf
    <3> QED BY <1>1, <1>2, <2>2, <3>1, Counted DEF Accepted
  <2> QED BY <2>1, <2>2
<1>4. ASSUME NEW r \in Requests, isAnswering(r)', r \notin outlived' PROVE eventOf(r)' # {}
  BY <1>2, <1>4 DEF Accepted, Remembered, isAnswering, eventOf
<1>5. \A y, z \in events' : y.tenant = z.tenant /\ y.key = z.key => y = z
  BY <1>1 DEF Accepted
<1> QED BY <1>3, <1>4, <1>5 DEF Accepted

LEMMA AcceptedStep == Typed /\ Related /\ Accepted /\ [Next]_vars => Accepted'
<1> SUFFICES ASSUME Typed, Related, Accepted, [Next]_vars, Remembered PROVE Accepted'
  BY Remembers DEF Next
<1>1. CASE UNCHANGED vars
  BY <1>1, SameEvents DEF vars
<1>2. ASSUME NEW r \in Requests, RequestStep(r) PROVE Accepted'
  <2>1. CASE (\E t \in Tenants : RotateKey(r, t)) \/ WriteKey(r) \/ AnswerKey(r)
    BY <2>1, RotationSteps, SameEvents DEF isIngestion, isAnswering
  <2>2. CASE \/ InsertEndpoint(r) \/ CommitUpdate(r) \/ RefuseUpdate(r) \/ AnswerUpdate(r)
             \/ \E t \in Tenants : CreateEndpoint(r, t)
             \/ \E t \in Tenants, e \in Endpoints, u \in Updates \cup {softDelete} : BeginUpdate(r, t, e, u)
    BY <2>2, EndpointSteps, SameEvents DEF isIngestion, isAnswering
  <2>3. CASE \E t \in Tenants : Submit(r, t)
    BY <2>3, IngestionSteps, SameEvents
  <2>4. CASE ReadEndpoints(r)
    BY <2>4, WasRead, SameEvents DEF tables
  <2>5. CASE Fail(r)
    BY <2>5, End, SameEvents DEF Fail, tables
  <2> QED BY <1>2, <2>1, <2>2, <2>3, <2>4, <2>5, CreateAccepted, AnswerAccepted DEF RequestStep
<1>3. ASSUME NEW t \in Tenants, CreateTenant(t) \/ DeleteTenant(t) PROVE Accepted'
  BY <1>3, SameEvents DEF CreateTenant, DeleteTenant, owners
<1> QED BY <1>1, <1>2, <1>3, CleanupAccepted DEF Next

-----------------------------------------------------------------------------
(* While a request is under way, no set seen for it is forgotten.              *)
LEMMA Observed ==
    ASSUME observe, NEW r \in Requests, isIngestion(r)'
    PROVE  seen[r] \subseteq seen'[r] /\ fitting(r)' \in seen'[r]
  BY DEF observe

(* Events go at most, and no request goes on in ingestion.                     *)
LEMMA SameFanOut ==
    ASSUME FannedOut, observe, events' \subseteq events,
           \A r \in Requests : request'[r].pc \in {"create", "accepted"} => request'[r] = request[r]
    PROVE  FannedOut'
<1>1. ASSUME NEW r \in Requests, request'[r].pc \in {"create", "accepted"}
      PROVE  /\ at(r, "create")' => request'[r].targets \in seen'[r]
             /\ at(r, "accepted")' /\ r \notin outlived' => \A x \in eventOf(r)' : x.targets \in seen'[r]
  <2>1. request'[r] = request[r] /\ isIngestion(r)'
    BY <1>1 DEF isIngestion, isAnswering
  <2>2. seen[r] \subseteq seen'[r] /\ eventOf(r)' \subseteq eventOf(r)
    BY <2>1, Observed DEF eventOf
  <2> QED BY <2>1, <2>2, Remembers DEF FannedOut, at, Remembered, isAnswering
<1> QED BY <1>1 DEF FannedOut, at

(* What is read of the subscriptions is what fits at that moment.              *)
LEMMA ReadFannedOut ==
    ASSUME Typed, Related, FannedOut, observe, NEW r \in Requests, ReadEndpoints(r)
    PROVE  FannedOut'
<1>1. endpoints' = endpoints /\ events' = events
  BY WasRead DEF tables
<1>2. isIngestion(r)' /\ ~at(r, "accepted")' /\ at(r, "create")'
  BY WasRead DEF isIngestion, isAnswering, at
<1>3. fitting(r)' = request'[r].targets
  <2>1. PICK t \in Tenants, y \in Types \ {Wildcard} : t = request[r].tenant /\ y = request[r].type
    BY WasRead, Fields
  <2>2. /\ request'[r].tenant = t /\ request'[r].type = y
        /\ request'[r].targets = subscribed(t, y)
    BY <2>1, WasRead
  <2>3. subscribed(t, y) = {e \in Existing : /\ endpoints[e].tenant = t /\ endpoints[e].active
                                             /\ (y \in endpoints[e].types \/ Wildcard \in endpoints[e].types)}
    BY DEF subscribed, EndpointsOf
  <2> QED BY <1>1, <2>2, <2>3 DEF fitting, Existing
<1>4. request'[r].targets \in seen'[r]
  BY <1>2, <1>3, Observed
<1>5. ASSUME NEW o \in Requests \ {r}, request'[o].pc \in {"create", "accepted"}
      PROVE  /\ at(o, "create")' => request'[o].targets \in seen'[o]
             /\ at(o, "accepted")' /\ o \notin outlived' => \A x \in eventOf(o)' : x.targets \in seen'[o]
  <2>1. request'[o] = request[o] /\ isIngestion(o)'
    BY <1>5, WasRead DEF isIngestion, isAnswering
  <2>2. seen[o] \subseteq seen'[o] /\ eventOf(o)' = eventOf(o)
    BY <1>1, <2>1, Observed DEF eventOf
  <2> QED BY <2>1, <2>2, Remembers DEF FannedOut, at, Remembered, isAnswering
<1> QED BY <1>2, <1>4, <1>5 DEF FannedOut, at

(* The event a request creates is its own, and those of others stay theirs.    *)
LEMMA CreateFannedOut ==
    ASSUME Typed, Related, Accepted, FannedOut, observe, NEW r \in Requests, CreateForTenant(r)
    PROVE  FannedOut'
<1>1. CASE isRepeat(r)
  <2>1. events' = events /\ request'[r].pc = "repeated" /\ \A o \in Requests \ {r} : request'[o] = request[o]
    BY <1>1, Created
  <2> QED BY <2>1, SameFanOut
<1>2. CASE ~isRepeat(r)
  <2>1. PICK x \in EventRows : /\ x.tenant = request[r].tenant /\ x.key = request[r].key
                               /\ x.targets = request[r].targets /\ events' = events \cup {x}
    BY <1>2, Created
  <2>2. /\ request'[r].pc = "accepted" /\ request'[r].tenant = request[r].tenant
        /\ request'[r].key = request[r].key /\ \A o \in Requests \ {r} : request'[o] = request[o]
    BY <1>2, Created
  <2>3. \A y \in events : ~(y.tenant = request[r].tenant /\ y.key = request[r].key)
    BY <1>2 DEF isRepeat, eventOf
  <2>4. /\ ~at(r, "create")' /\ \A y \in eventOf(r)' : y.targets \in seen'[r]
    <3>1. eventOf(r)' = {x}
      BY <2>1, <2>2, <2>3 DEF eventOf
    <3>2. request[r].targets \in seen[r]
      BY DEF CreateForTenant, FannedOut
    <3>3. isIngestion(r)'
      BY <2>2 DEF isIngestion, isAnswering
    <3> QED BY <2>1, <2>2, <3>1, <3>2, <3>3, Observed DEF at
  <2>5. ASSUME NEW o \in Requests \ {r}, request'[o].pc \in {"create", "accepted"}
        PROVE  /\ at(o, "create")' => request'[o].targets \in seen'[o]
               /\ at(o, "accepted")' /\ o \notin outlived' => \A y \in eventOf(o)' : y.targets \in seen'[o]
    <3>1. request'[o] = request[o] /\ isIngestion(o)'
      BY <2>2, <2>5 DEF isIngestion, isAnswering
    <3>2. seen[o] \subseteq seen'[o]
      BY <3>1, Observed
    <3>3. at(o, "accepted")' /\ o \notin outlived' => at(o, "accepted") /\ o \notin outlived
      BY <3>1, Remembers DEF Remembered, isAnswering, at
    <3>4. at(o, "accepted") /\ o \notin outlived => eventOf(o)' = eventOf(o)
      BY <2>1, <2>3, <3>1 DEF Accepted, eventOf, at, isAnswering
    <3> QED BY <3>1, <3>2, <3>3, <3>4 DEF FannedOut, at
  <2> QED BY <2>4, <2>5 DEF FannedOut, at
<1> QED BY <1>1, <1>2

LEMMA FannedOutStep == Typed /\ Related /\ Accepted /\ FannedOut /\ [Next]_vars => FannedOut'
<1> SUFFICES ASSUME Typed, Related, Accepted, FannedOut, [Next]_vars PROVE FannedOut'
  OBVIOUS
<1>1. CASE UNCHANGED vars
  BY <1>1 DEF vars, FannedOut, eventOf, at
<1>2. CASE Next
  <2>1. observe
    BY <1>2 DEF Next
  <2>2. ASSUME NEW r \in Requests, RequestStep(r) PROVE FannedOut'
    <3>1. CASE (\E t \in Tenants : RotateKey(r, t)) \/ WriteKey(r) \/ AnswerKey(r)
      BY <2>1, <3>1, RotationSteps, SameFanOut DEF isIngestion, isAnswering
    <3>2. CASE \/ InsertEndpoint(r) \/ CommitUpdate(r) \/ RefuseUpdate(r) \/ AnswerUpdate(r)
               \/ \E t \in Tenants : CreateEndpoint(r, t)
               \/ \E t \in Tenants, e \in Endpoints, u \in Updates \cup {softDelete} :
                     BeginUpdate(r, t, e, u)
      BY <2>1, <3>2, EndpointSteps, SameFanOut DEF isIngestion, isAnswering
    <3>3. CASE \E t \in Tenants : Submit(r, t)
      BY <2>1, <3>3, IngestionSteps, SameFanOut
    <3>4. CASE Fail(r) \/ AnswerSubmit(r)
      <4>1. end(r) /\ events' = events
        BY <3>4 DEF Fail, AnswerSubmit, tables
      <4> QED BY <2>1, <4>1, End, SameFanOut
    <3> QED BY <2>1, <2>2, <3>1, <3>2, <3>3, <3>4, ReadFannedOut, CreateFannedOut DEF RequestStep
  <2>3. ASSUME NEW t \in Tenants, CreateTenant(t) \/ DeleteTenant(t) PROVE FannedOut'
    BY <2>1, <2>3, SameFanOut DEF CreateTenant, DeleteTenant
  <2>4. CASE cleanupOldEvents
    BY <2>1, <2>4, SameFanOut DEF cleanupOldEvents
  <2> QED BY <1>2, <2>2, <2>3, <2>4 DEF Next
<1> QED BY <1>1, <1>2

-----------------------------------------------------------------------------
(* The keys of tenants stay, and so do the rotations under way.                *)
LEMMA SameKeys ==
    ASSUME Typed, Related, KeyTold, UNCHANGED <<held, lapses>>,
           \A t \in Tenants : /\ present(t)' <=> present(t)
                              /\ present(t) => tenants'[t].key = tenants[t].key,
           \A r \in Requests : request'[r] = request[r] \/ (~isRotation(r) /\ ~isRotation(r)')
    PROVE  KeyTold'
<1>1. ASSUME NEW t \in Tenants \ lapses'
      PROVE  /\ \A r, o \in rotating(t)' : r = o
             /\ \A r \in rotating(t)' : at(r, "answerKey")' => tenants'[t].key = request'[r].key
             /\ present(t)' /\ rotating(t)' = {} => tenants'[t].key = held'[t]
  <2>1. rotating(t)' = rotating(t) /\ \A r \in rotating(t) : request'[r] = request[r] /\ present(t)
    BY DEF rotating, isRotation, Related
  <2> QED BY <2>1 DEF KeyTold, at
<1> QED BY <1>1 DEF KeyTold

LEMMA CreateTenantTold ==
    ASSUME Typed, Related, KeyTold, NEW t \in Tenants, CreateTenant(t)
    PROVE  KeyTold'
<1>1. /\ tenants' = [tenants EXCEPT ![t] = [active |-> TRUE, key |-> generateApiKey]]
      /\ \/ held' = [held EXCEPT ![t] = generateApiKey] /\ lapses' = lapses
         \/ held' = held /\ lapses' = lapses \cup {t}
      /\ tenants[t] = Nothing /\ request' = request
  BY DEF CreateTenant
<1>2. \A u \in Tenants : rotating(u)' = rotating(u)
  BY <1>1 DEF rotating, isRotation
<1>3. rotating(t) = {}
  BY <1>1, Present DEF rotating, Related
<1>4. t \notin lapses' => tenants'[t].key = held'[t]
  BY <1>1 DEF Typed, TypeOK
<1>5. \A u \in Tenants \ {t} : tenants'[u] = tenants[u] /\ held'[u] = held[u] /\ (present(u)' <=> present(u))
  BY <1>1 DEF Typed, TypeOK, present
<1>6. ASSUME NEW u \in Tenants \ lapses'
      PROVE  /\ \A r, o \in rotating(u)' : r = o
             /\ \A r \in rotating(u)' : at(r, "answerKey")' => tenants'[u].key = request'[r].key
             /\ present(u)' /\ rotating(u)' = {} => tenants'[u].key = held'[u]
  <2>1. CASE u = t
    BY <1>2, <1>3, <1>4, <2>1
  <2>2. CASE u # t
    BY <1>1, <1>2, <1>5, <2>2 DEF KeyTold, at
  <2> QED BY <2>1, <2>2
<1> QED BY <1>6 DEF KeyTold

LEMMA RotateKeyTold ==
    ASSUME Typed, Related, KeyTold, NEW r \in Requests, NEW t \in Tenants, RotateKey(r, t)
    PROVE  KeyTold'
<1> DEFINE call == [pc |-> "writeKey", tenant |-> t, key |-> generateApiKey]
<1>1. call \in RequestStates /\ call.pc = "writeKey" /\ call.tenant = t
  BY FreeKey DEF Rotation, RequestStates
<1>2. /\ arrive(r, call) /\ tenants' = tenants /\ held' = held
      /\ lapses' = IF rotating(t) = {} THEN lapses ELSE lapses \cup {t}
  BY DEF RotateKey, tables
<1> HIDE DEF call
<1>3. /\ \A o \in Requests \ {r} : request'[o] = request[o]
      /\ request'[r].pc = "writeKey" /\ request'[r].tenant = t /\ ~isRotation(r)
  BY <1>1, <1>2, Arrival DEF open, isRotation
<1>4. /\ rotating(t)' = rotating(t) \cup {r}
      /\ \A u \in Tenants \ {t} : rotating(u)' = rotating(u)
  BY <1>3 DEF rotating, isRotation
<1>5. ASSUME NEW u \in Tenants \ lapses'
      PROVE  /\ \A q, o \in rotating(u)' : q = o
             /\ \A q \in rotating(u)' : at(q, "answerKey")' => tenants'[u].key = request'[q].key
             /\ present(u)' /\ rotating(u)' = {} => tenants'[u].key = held'[u]
  <2>1. CASE u = t
    <3>1. rotating(t) = {}
      BY <1>2, <2>1
    <3>2. rotating(u)' = {r} /\ ~at(r, "answerKey")'
      BY <1>3, <1>4, <2>1, <3>1 DEF at
    <3> QED BY <3>2
  <2>2. CASE u # t
    <3>1. u \in Tenants \ lapses /\ rotating(u)' = rotating(u) /\ (present(u)' <=> present(u))
      BY <1>2, <1>4, <2>2 DEF present
    <3>2. \A q \in rotating(u) : request'[q] = request[q]
      BY <1>3 DEF rotating
    <3> QED BY <1>2, <3>1, <3>2 DEF KeyTold, at
  <2> QED BY <2>1, <2>2
<1> QED BY <1>5 DEF KeyTold

LEMMA WriteKeyTold ==
    ASSUME Typed, Related, KeyTold, NEW r \in Requests, WriteKey(r)
    PROVE  KeyTold'
<1>1. isRotation(r) /\ goto(r, "answerKey") /\ held' = held /\ lapses' = lapses
  BY DEF WriteKey, at, isRotation, owners
<1>2. PICK t \in Tenants : t = request[r].tenant /\ present(t)
  BY <1>1, Fields DEF Related
<1>3. /\ request'[r].tenant = t /\ request'[r].key = request[r].key
      /\ request'[r].pc = "answerKey" /\ \A o \in Requests \ {r} : request'[o] = request[o]
  BY <1>1, <1>2, Goto
<1>4. tenants' = [tenants EXCEPT ![t] = updateApiKeyHash(r)] /\ updateApiKeyHash(r).key = request[r].key
  <2>1. PICK row \in TenantRows : row = tenants[t]
    BY <1>2 DEF present
  <2>2. [row EXCEPT !.key = request[r].key].key = request[r].key
    BY DEF TenantRows
  <2> QED BY <1>2, <2>1, <2>2 DEF WriteKey, updateApiKeyHash
<1>5. /\ tenants'[t].key = request[r].key
      /\ \A u \in Tenants \ {t} : tenants'[u] = tenants[u] /\ (present(u)' <=> present(u))
  BY <1>4 DEF Typed, TypeOK, present
<1>6. r \in rotating(t) /\ \A u \in Tenants : rotating(u)' = rotating(u)
  BY <1>1, <1>2, <1>3 DEF rotating, isRotation
<1>7. ASSUME NEW u \in Tenants \ lapses'
      PROVE  /\ \A q, o \in rotating(u)' : q = o
             /\ \A q \in rotating(u)' : at(q, "answerKey")' => tenants'[u].key = request'[q].key
             /\ present(u)' /\ rotating(u)' = {} => tenants'[u].key = held'[u]
  <2>1. \A q, o \in rotating(u) : q = o
    BY <1>1 DEF KeyTold
  <2>2. CASE u = t
    BY <1>3, <1>5, <1>6, <2>1, <2>2
  <2>3. CASE u # t
    <3>1. r \notin rotating(u)
      BY <1>2, <2>3 DEF rotating
    <3>2. \A q \in rotating(u) : request'[q] = request[q]
      BY <1>3, <3>1 DEF rotating
    <3> QED BY <1>1, <1>5, <1>6, <2>3, <3>2 DEF KeyTold, at
  <2> QED BY <2>2, <2>3
<1> QED BY <1>7 DEF KeyTold

LEMMA AnswerKeyTold ==
    ASSUME Typed, Related, KeyTold, NEW r \in Requests, AnswerKey(r)
    PROVE  KeyTold'
<1>1. isRotation(r) /\ end(r) /\ at(r, "answerKey") /\ tenants' = tenants /\ lapses' = lapses
      /\ held' = [held EXCEPT ![request[r].tenant] = request[r].key]
  BY DEF AnswerKey, at, isRotation, tables
<1>2. PICK t \in Tenants : t = request[r].tenant
  BY <1>1, Fields
<1>3. ~isRotation(r)' /\ \A o \in Requests \ {r} : request'[o] = request[o]
  BY <1>1, End
<1>4. /\ r \in rotating(t) /\ rotating(t)' = rotating(t) \ {r}
      /\ \A u \in Tenants \ {t} : rotating(u)' = rotating(u)
  BY <1>1, <1>2, <1>3 DEF rotating, isRotation
<1>5. held'[t] = request[r].key /\ \A u \in Tenants \ {t} : held'[u] = held[u]
  BY <1>1, <1>2 DEF Typed, TypeOK
<1>6. ASSUME NEW u \in Tenants \ lapses'
      PROVE  /\ \A q, o \in rotating(u)' : q = o
             /\ \A q \in rotating(u)' : at(q, "answerKey")' => tenants'[u].key = request'[q].key
             /\ present(u)' /\ rotating(u)' = {} => tenants'[u].key = held'[u]
  <2>1. CASE u = t
    BY <1>1, <1>4, <1>5, <2>1 DEF KeyTold
  <2>2. CASE u # t
    <3>1. rotating(u)' = rotating(u) /\ (present(u)' <=> present(u))
      BY <1>1, <1>4, <2>2 DEF present
    <3>2. \A q \in rotating(u) : request'[q] = request[q]
      BY <1>3, <3>1 DEF rotating
    <3> QED BY <1>1, <1>5, <2>2, <3>1, <3>2 DEF KeyTold, at
  <2> QED BY <2>1, <2>2
<1> QED BY <1>6 DEF KeyTold

LEMMA FailTold ==
    ASSUME Typed, Related, KeyTold, NEW r \in Requests, Fail(r)
    PROVE  KeyTold'
<1>1. /\ end(r) /\ tenants' = tenants /\ held' = held
      /\ lapses' = IF isRotation(r) THEN lapses \cup {request[r].tenant} ELSE lapses
  BY DEF Fail, tables
<1>2. ~isRotation(r)' /\ \A o \in Requests \ {r} : request'[o] = request[o]
  BY <1>1, End
<1>3. ASSUME NEW u \in Tenants \ lapses'
      PROVE  /\ \A q, o \in rotating(u)' : q = o
             /\ \A q \in rotating(u)' : at(q, "answerKey")' => tenants'[u].key = request'[q].key
             /\ present(u)' /\ rotating(u)' = {} => tenants'[u].key = held'[u]
  <2>1. u \in Tenants \ lapses /\ r \notin rotating(u) /\ (present(u)' <=> present(u))
    BY <1>1 DEF rotating, present
  <2>2. rotating(u)' = rotating(u) /\ \A q \in rotating(u) : request'[q] = request[q]
    BY <1>2, <2>1 DEF rotating, isRotation
  <2> QED BY <1>1, <2>1, <2>2 DEF KeyTold, at
<1> QED BY <1>3 DEF KeyTold

LEMMA KeyToldStep == Typed /\ Related /\ Accepted /\ KeyTold /\ [Next]_vars => KeyTold'
<1> SUFFICES ASSUME Typed, Related, Accepted, KeyTold, [Next]_vars PROVE KeyTold'
  OBVIOUS
<1>1. CASE UNCHANGED vars
  BY <1>1, SameKeys DEF vars, present
<1>2. ASSUME NEW r \in Requests, RequestStep(r) PROVE KeyTold'
  <2>1. CASE \/ InsertEndpoint(r) \/ CommitUpdate(r) \/ RefuseUpdate(r) \/ AnswerUpdate(r)
             \/ \E t \in Tenants : CreateEndpoint(r, t)
             \/ \E t \in Tenants, e \in Endpoints, u \in Updates \cup {softDelete} : BeginUpdate(r, t, e, u)
    BY <2>1, EndpointSteps, SameKeys DEF present
  <2>2. CASE (\E t \in Tenants : Submit(r, t)) \/ ReadEndpoints(r) \/ CreateForTenant(r) \/ AnswerSubmit(r)
    BY <2>2, IngestionSteps, SameKeys DEF present
  <2> QED BY <1>2, <2>1, <2>2, RotateKeyTold, WriteKeyTold, AnswerKeyTold, FailTold DEF RequestStep
<1>3. ASSUME NEW t \in Tenants, DeleteTenant(t) PROVE KeyTold'
  <2>1. PICK row \in TenantRows : row = tenants[t]
    BY <1>3, Present DEF DeleteTenant, present
  <2>2. [row EXCEPT !.active = FALSE] \in TenantRows /\ [row EXCEPT !.active = FALSE].key = row.key
    BY DEF TenantRows
  <2>3. tenants' = [tenants EXCEPT ![t] = [row EXCEPT !.active = FALSE]]
        /\ UNCHANGED <<request, held, lapses>>
    BY <1>3, <2>1 DEF DeleteTenant, owners
  <2>4. \A u \in Tenants : /\ present(u)' <=> present(u)
                           /\ present(u) => tenants'[u].key = tenants[u].key
    BY <2>1, <2>2, <2>3 DEF Typed, TypeOK, present
  <2> QED BY <2>3, <2>4, SameKeys
<1>4. CASE cleanupOldEvents
  BY <1>4, SameKeys DEF cleanupOldEvents, present
<1> QED BY <1>1, <1>2, <1>3, <1>4, CreateTenantTold DEF Next

-----------------------------------------------------------------------------
(* Endpoints and what is expected of those there stay, and updates under way   *)
(* do, but that some may end.                                                  *)
LEMMA SameAsked ==
    ASSUME Typed, Related, Asked,
           \A e \in Existing' : \/ e \in Existing /\ endpoints'[e] = endpoints[e] /\ asked'[e] = asked[e]
                                \/ e \notin Existing /\ fits(endpoints'[e], asked'[e]),
           Existing \subseteq Existing',
           \A r \in Requests : request'[r] = request[r] \/ ~isUpdate(r)'
    PROVE  Asked'
<1>1. \A e \in Existing' : fits(endpoints[e], asked[e])'
  BY DEF Asked, fits
<1>2. ASSUME NEW r \in Requests, isUpdate(r)' PROVE UpdateKept(r)'
  <2>1. request'[r] = request[r] /\ isUpdate(r)
    BY <1>2 DEF isUpdate
  <2>2. PICK e \in Existing : e = request[r].endpoint
    BY <2>1 DEF Related
  <2>3. endpoints'[e] = endpoints[e] /\ asked'[e] = asked[e]
    OBVIOUS
  <2>4. overlapping(r, e)' \subseteq overlapping(r, e)
    BY DEF overlapping, isUpdate
  <2>5. UpdateKept(r)
    BY <2>1 DEF Asked
  <2> QED BY <2>1, <2>2, <2>3, <2>4, <2>5 DEF UpdateKept, at, fits
<1> QED BY <1>1, <1>2 DEF Asked

LEMMA CreateTenantAsked ==
    ASSUME Typed, Related, Asked, NEW t \in Tenants, CreateTenant(t)
    PROVE  Asked'
<1>1. PICK new \in SUBSET (Endpoints \ Existing) :
      \E url \in [new -> Urls], types \in [new -> Subscriptions] :
          /\ \A e, f \in new : url[e] = url[f] => e = f
          /\ endpoints' = [e \in Endpoints |->
                IF e \in new THEN newRow(t, url[e], types[e]) ELSE endpoints[e]]
          /\ asked' = [e \in Endpoints |-> IF e \in new THEN expectation(types[e]) ELSE asked[e]]
  BY DEF CreateTenant
<1>2. PICK url \in [new -> Urls], types \in [new -> Subscriptions] :
          /\ endpoints' = [e \in Endpoints |->
                IF e \in new THEN newRow(t, url[e], types[e]) ELSE endpoints[e]]
          /\ asked' = [e \in Endpoints |-> IF e \in new THEN expectation(types[e]) ELSE asked[e]]
  BY <1>1
<1>3. ASSUME NEW e \in new PROVE fits(endpoints'[e], asked'[e])
  <2>1. e \in Endpoints /\ url[e] \in Urls /\ types[e] \in (SUBSET Types) \ {{}}
    BY ApiAssumption
  <2>2. endpoints'[e] = newRow(t, url[e], types[e]) /\ asked'[e] = expectation(types[e])
    BY <1>2, <2>1
  <2> QED BY <2>1, <2>2, NewRow
<1>4. \A e \in Endpoints \ new : endpoints'[e] = endpoints[e] /\ asked'[e] = asked[e]
  BY <1>2
<1>5. Existing \subseteq Existing' /\ \A e \in Existing' : e \in Endpoints /\ (e \in Existing \/ e \in new)
  BY <1>4 DEF Existing
<1>6. request' = request
  BY DEF CreateTenant
<1> QED BY <1>3, <1>4, <1>5, <1>6, SameAsked DEF Existing

LEMMA InsertAsked ==
    ASSUME Typed, Related, Asked, NEW r \in Requests, InsertEndpoint(r)
    PROVE  Asked'
<1> DEFINE row == request[r].row
<1>1. at(r, "createEndpoint") /\ end(r) /\ row \in NewRows
  BY Fields DEF InsertEndpoint
<1>2. \A o \in Requests : request'[o] = request[o] \/ ~isUpdate(o)'
  BY <1>1, End
<1>3. CASE UNCHANGED <<endpoints, asked>>
  BY <1>2, <1>3, SameAsked DEF Existing
<1>4. CASE ~urlTaken(row.tenant, row.url, Nothing)
  <2>1. PICK e \in Endpoints \ Existing :
            /\ endpoints' = [endpoints EXCEPT ![e] = row]
            /\ asked' = [asked EXCEPT ![e] = expectation(row.types)]
    BY <1>4 DEF InsertEndpoint
  <2>2. fits(row, expectation(row.types))
    BY <1>1 DEF NewRows, fits, expectation
  <2>3. /\ endpoints'[e] = row /\ asked'[e] = expectation(row.types)
        /\ \A f \in Endpoints \ {e} : endpoints'[f] = endpoints[f] /\ asked'[f] = asked[f]
    BY <2>1 DEF Typed, TypeOK
  <2>4. Existing \subseteq Existing' /\ \A f \in Existing' : f \in Endpoints /\ (f \in Existing \/ f = e)
    BY <2>3 DEF Existing
  <2> QED BY <1>2, <2>2, <2>3, <2>4, SameAsked DEF Existing
<1> QED BY <1>3, <1>4 DEF InsertEndpoint

LEMMA BegunRequest ==
    ASSUME NEW r \in Requests, NEW t \in Tenants, NEW e \in Endpoints,
           NEW u \in Updates \cup {softDelete}, BeginUpdate(r, t, e, u)
    PROVE  /\ request'[r].pc = "commitUpdate" /\ request'[r].endpoint = e /\ request'[r].update = u
           /\ request'[r].before = asked[e]
           /\ request'[r].rows = IF u.types = {} THEN {} ELSE endpoints[e].types
<1>1. request'[r] = [pc |-> "commitUpdate", endpoint |-> e, update |-> u, before |-> asked[e],
                     rows |-> IF u.types = {} THEN {} ELSE endpoints[e].types,
                     alone |-> overlapping(r, e) = {}]
  BY DEF BeginUpdate
<1> QED BY <1>1

LEMMA BegunRequests ==
    ASSUME Typed, Related, NEW r \in Requests, NEW t \in Tenants, NEW e \in Endpoints,
           NEW u \in Updates \cup {softDelete}, BeginUpdate(r, t, e, u)
    PROVE  /\ request'[r].endpoint = e /\ request'[r].update = u /\ request'[r].before = asked[e]
           /\ \A o \in overlapping(r, e) :
                 /\ isUpdate(o) /\ request[o].endpoint = e /\ request'[o].endpoint = e
                 /\ request'[o].update = request[o].update /\ ~request'[o].alone
           /\ \A o \in Requests \ {r} : o \notin overlapping(r, e) => request'[o] = request[o]
           /\ request'[r].alone => overlapping(r, e) = {}
<1>1. ASSUME NEW o \in overlapping(r, e)
      PROVE  /\ isUpdate(o) /\ request[o].endpoint = e /\ request'[o].endpoint = e
             /\ request'[o].update = request[o].update /\ ~request'[o].alone
  <2>1. o \in Requests \ {r} /\ isUpdate(o) /\ request[o].endpoint = e
    BY DEF overlapping
  <2>2. /\ request'[o].endpoint = request[o].endpoint
        /\ request'[o].update = request[o].update /\ ~request'[o].alone
    BY <2>1, Begun, ZenonT(40)
  <2> QED BY <2>1, <2>2
<1>2. ASSUME NEW o \in Requests \ {r}, o \notin overlapping(r, e) PROVE request'[o] = request[o]
  BY <1>2, Begun, ZenonT(40)
<1>3. request'[r].endpoint = e /\ request'[r].update = u /\ request'[r].before = asked[e]
  BY BegunRequest
<1>4. request'[r].alone => overlapping(r, e) = {}
  BY Begun
<1> QED BY <1>1, <1>2, <1>3, <1>4

(* What is expected grows by what the update asks for.                         *)
LEMMA BeginAsked ==
    ASSUME Typed, Related, Asked, NEW r \in Requests, NEW t \in Tenants, NEW e \in Endpoints,
           NEW u \in Updates \cup {softDelete}, BeginUpdate(r, t, e, u)
    PROVE  Asked'
<1>1. e \in Existing /\ endpoints' = endpoints
      /\ asked' = [asked EXCEPT ![e].active = @ \cup u.active, ![e].types = @ \cup u.types]
  BY Begun DEF tables
<1>2. /\ asked'[e].active = asked[e].active \cup u.active
      /\ asked'[e].types = asked[e].types \cup u.types
      /\ \A f \in Existing \ {e} : asked'[f] = asked[f]
  BY <1>1, Expected DEF Existing
<1>3. \A f \in Existing : /\ asked[f].active \subseteq asked'[f].active
                          /\ asked[f].types \subseteq asked'[f].types
  BY <1>2
<1>4. ASSUME NEW f \in Existing' PROVE fits(endpoints[f], asked[f])'
  <2>1. f \in Existing /\ fits(endpoints[f], asked[f])
    BY <1>1, <1>4 DEF Existing, Asked
  <2> QED BY <1>1, <1>3, <2>1 DEF fits
<1>5. ASSUME NEW o \in Requests \ {r}, isUpdate(o)' PROVE UpdateKept(o)'
  <2>1. CASE o \in overlapping(r, e)
    <3>1. /\ isUpdate(o) /\ request[o].endpoint = e
          /\ request'[o].endpoint = e /\ request'[o].update = request[o].update /\ ~request'[o].alone
      BY <2>1, BegunRequests
    <3>2. UpdateKept(o)
      BY <3>1 DEF Asked
    <3> QED BY <1>2, <3>1, <3>2 DEF UpdateKept
  <2>2. CASE o \notin overlapping(r, e)
    <3>1. request'[o] = request[o]
      BY <2>2, BegunRequests
    <3>2. isUpdate(o) /\ UpdateKept(o) /\ request[o].endpoint \in Existing
      BY <1>5, <3>1 DEF isUpdate, Asked, Related
    <3>3. request[o].endpoint # e
      BY <2>2, <3>2 DEF overlapping
    <3>4. overlapping(o, request[o].endpoint)' \subseteq overlapping(o, request[o].endpoint)
      <4>1. ASSUME NEW q \in Requests, isUpdate(q)', request'[q].endpoint = request[o].endpoint
            PROVE  isUpdate(q) /\ request[q].endpoint = request[o].endpoint
        <5>1. q # r
          BY <3>3, <4>1, BegunRequests
        <5>2. CASE q \in overlapping(r, e)
          <6>1. isUpdate(q) /\ request'[q].endpoint = request[q].endpoint
            BY <5>1, <5>2, BegunRequests
          <6> QED BY <4>1, <6>1
        <5>3. CASE q \notin overlapping(r, e)
          <6>1. request'[q] = request[q]
            BY <5>1, <5>3, BegunRequests
          <6> QED BY <4>1, <6>1 DEF isUpdate
        <5> QED BY <5>2, <5>3
      <4> QED BY <3>1, <4>1 DEF overlapping
    <3>5. asked'[request[o].endpoint] = asked[request[o].endpoint]
      BY <1>2, <3>2, <3>3
    <3> QED BY <1>1, <3>1, <3>2, <3>4, <3>5 DEF UpdateKept, at, fits
  <2> QED BY <2>1, <2>2
<1>6. UpdateKept(r)'
  <2>1. /\ request'[r].pc = "commitUpdate" /\ request'[r].endpoint = e /\ request'[r].update = u
        /\ request'[r].before = asked[e]
        /\ request'[r].rows = IF u.types = {} THEN {} ELSE endpoints[e].types
    BY BegunRequest
  <2>2. request'[r].alone => overlapping(r, e)' = {}
    <3>1. ASSUME NEW o \in Requests \ {r}, overlapping(r, e) = {}, isUpdate(o)', request'[o].endpoint = e
          PROVE  FALSE
      <4>1. request'[o] = request[o]
        BY <3>1, BegunRequests
      <4> QED BY <3>1, <4>1 DEF overlapping, isUpdate
    <3> QED BY <3>1, BegunRequests DEF overlapping
  <2>3. fits(endpoints[e], asked[e])
    BY <1>1 DEF Asked
  <2> QED BY <1>1, <1>2, <2>1, <2>2, <2>3 DEF UpdateKept, at, fits
<1> QED BY <1>4, <1>5, <1>6 DEF Asked

(* What a commit puts there is within what is expected.                        *)
LEMMA CommitAsked ==
    ASSUME Typed, Related, Asked, NEW r \in Requests, CommitUpdate(r)
    PROVE  Asked'
<1> DEFINE e == request[r].endpoint
           u == request[r].update
<1>1. /\ e \in Existing /\ isUpdate(r) /\ at(r, "commitUpdate") /\ asked' = asked /\ u \in UpdateRecords
      /\ endpoints'[e] \in EndpointRows
      /\ endpoints'[e].types = replaced(r)
      /\ endpoints'[e].active = valueOr(u.active, endpoints[e].active)
  BY Committed DEF CommitUpdate, owners
<1>2. \A f \in Endpoints \ {e} : endpoints'[f] = endpoints[f]
  <2>1. PICK row : endpoints' = [endpoints EXCEPT ![e] = row]
    BY DEF CommitUpdate
  <2> QED BY <2>1 DEF Typed, TypeOK
<1>3. UpdateKept(r) /\ fits(endpoints[e], asked[e])
  BY <1>1 DEF Asked
<1>4. endpoints'[e].active \in asked[e].active /\ (u.active # {} => endpoints'[e].active \in u.active)
  BY <1>1, <1>3 DEF valueOr, UpdateKept, fits
<1>5. endpoints'[e].types \subseteq UNION asked[e].types
  BY <1>1, <1>3 DEF replaced, spared, UpdateKept, fits
<1>6. \E types \in asked[e].types : types \subseteq endpoints'[e].types
  <2>1. CASE u.types = {}
    BY <1>1, <1>3, <2>1 DEF replaced, fits
  <2>2. CASE u.types # {}
    <3>1. PICK S \in u.types : S \in asked[e].types
      BY <1>3, <2>2 DEF UpdateKept
    <3>2. S \subseteq replaced(r)
      BY <2>2, <3>1 DEF replaced
    <3> QED BY <1>1, <3>1, <3>2
  <2> QED BY <2>1, <2>2
<1>7. ASSUME NEW f \in Existing' PROVE fits(endpoints[f], asked[f])'
  <2>1. CASE f = e
    BY <1>1, <1>4, <1>5, <1>6, <2>1 DEF fits
  <2>2. CASE f # e
    <3>1. f \in Existing
      <4>1. f \in Endpoints /\ endpoints'[f] = endpoints[f]
        BY <1>2, <1>7, <2>2 DEF Existing
      <4> QED BY <1>7, <4>1 DEF Existing
    <3> QED BY <1>1, <1>2, <2>2, <3>1 DEF fits, Asked, Existing
  <2> QED BY <2>1, <2>2
<1>8. ASSUME NEW o \in Requests
      PROVE  /\ isUpdate(o)' => /\ isUpdate(o)
                                /\ request'[o].endpoint = request[o].endpoint
                                /\ request'[o].update = request[o].update
                                /\ request'[o].alone = request[o].alone
             /\ o # r /\ o \notin overlapping(r, e) => request'[o] = request[o]
  <2>1. CASE o = r
    BY <1>1, <2>1, Committed
  <2>2. CASE o # r /\ o \in overlapping(r, e)
    <3>1. isUpdate(o)
      BY <2>2 DEF overlapping
    <3>2. /\ request'[o].endpoint = request[o].endpoint /\ request'[o].update = request[o].update
          /\ request'[o].alone = request[o].alone
      BY <2>2, Committed
    <3> QED BY <2>2, <3>1, <3>2
  <2>3. CASE o # r /\ o \notin overlapping(r, e)
    <3>1. request'[o] = request[o]
      BY <2>3, Committed
    <3> QED BY <3>1 DEF isUpdate
  <2> QED BY <2>1, <2>2, <2>3
<1>9. \A o \in Requests : \A f : overlapping(o, f)' \subseteq overlapping(o, f)
  BY <1>8 DEF overlapping
<1>10. UpdateKept(r)'
  <2>1. request'[r].pc = "answerUpdate" /\ request'[r].endpoint = e /\ request'[r].update = u
        /\ request'[r].alone = request[r].alone
    BY Committed
  <2>2. request[r].alone => overlapping(r, e)' = {}
    <3>1. request[r].alone => overlapping(r, e) = {}
      BY <1>3 DEF UpdateKept
    <3>2. overlapping(r, e)' \subseteq overlapping(r, e)
      BY <1>9, <2>1 DEF overlapping
    <3> QED BY <3>1, <3>2
  <2>3. request[r].alone /\ u.types # {} => endpoints'[e].types = UNION u.types
    BY <1>1, <1>3 DEF UpdateKept, replaced, spared
  <2>4. u.active \subseteq asked'[e].active /\ u.types \subseteq asked'[e].types
    BY <1>1, <1>3 DEF UpdateKept
  <2> QED BY <1>4, <2>1, <2>2, <2>3, <2>4 DEF UpdateKept, at
<1>11. ASSUME NEW o \in Requests \ {r}, isUpdate(o)' PROVE UpdateKept(o)'
  <2>1. isUpdate(o) /\ UpdateKept(o) /\ request[o].endpoint \in Existing
    BY <1>8, <1>11 DEF Asked, Related
  <2>2. CASE o \in overlapping(r, e)
    <3>1. request[o].endpoint = e /\ r \in overlapping(o, e)
      BY <1>1, <1>11, <2>2 DEF overlapping
    <3>2. ~request[o].alone
      BY <2>1, <3>1 DEF UpdateKept
    <3> QED BY <1>1, <1>8, <1>11, <2>1, <3>1, <3>2 DEF UpdateKept
  <2>3. CASE o \notin overlapping(r, e)
    <3>1. request'[o] = request[o] /\ request[o].endpoint # e
      BY <1>8, <2>1, <2>3 DEF overlapping
    <3>2. endpoints'[request[o].endpoint] = endpoints[request[o].endpoint]
      BY <1>2, <2>1, <3>1 DEF Existing
    <3> QED BY <1>1, <1>9, <2>1, <3>1, <3>2 DEF UpdateKept, at, fits
  <2> QED BY <2>2, <2>3
<1> QED BY <1>7, <1>10, <1>11 DEF Asked

(* An update that was alone decides what is expected afterwards.               *)
LEMMA SettleAsked ==
    ASSUME Typed, Related, Asked, NEW r \in Requests, RefuseUpdate(r) \/ AnswerUpdate(r)
    PROVE  Asked'
<1>1. /\ isUpdate(r) /\ end(r) /\ endpoints' = endpoints /\ UpdateKept(r)
  BY DEF RefuseUpdate, AnswerUpdate, at, isUpdate, tables, Asked
<1>2. PICK e \in Existing : e = request[r].endpoint /\ e \in Endpoints
  BY <1>1 DEF Related, Existing
<1>3. \A o \in Requests : request'[o] = request[o] \/ ~isUpdate(o)'
  BY <1>1, End
<1>4. CASE ~request[r].alone
  <2>1. asked' = asked
    BY <1>4 DEF RefuseUpdate, AnswerUpdate
  <2> QED BY <1>1, <1>3, <2>1, SameAsked DEF Existing
<1>5. CASE request[r].alone
  <2>1. overlapping(r, e) = {}
    BY <1>1, <1>2, <1>5 DEF UpdateKept
  <2>2. PICK a : asked' = [asked EXCEPT ![e] = a] /\ fits(endpoints[e], a)
    <3>1. CASE RefuseUpdate(r)
      BY <1>1, <1>2, <1>5, <3>1 DEF RefuseUpdate, UpdateKept
    <3>2. CASE AnswerUpdate(r)
      <4>1. asked' = [asked EXCEPT ![e] = settledAs(r)] /\ at(r, "answerUpdate")
        BY <1>2, <1>5, <3>2 DEF AnswerUpdate
      <4>2. fits(endpoints[e], asked[e])
        BY DEF Asked
      <4>3. endpoints[e].active \in settledAs(r).active
        BY <1>1, <1>2, <1>5, <4>1, <4>2 DEF settledAs, UpdateKept, fits
      <4>4. CASE request[r].update.types = {}
        <5>1. settledAs(r).types = asked[e].types
          BY <1>2, <4>4 DEF settledAs
        <5> QED BY <4>1, <4>2, <4>3, <5>1 DEF fits
      <4>5. CASE request[r].update.types # {}
        <5>1. settledAs(r).types = request[r].update.types
              /\ endpoints[e].types = UNION request[r].update.types
          BY <1>1, <1>2, <1>5, <4>1, <4>5 DEF settledAs, UpdateKept
        <5> QED BY <4>1, <4>3, <4>5, <5>1 DEF fits
      <4> QED BY <4>4, <4>5
    <3> QED BY <3>1, <3>2
  <2>3. asked'[e] = a /\ \A f \in Endpoints \ {e} : asked'[f] = asked[f]
    BY <1>2, <2>2 DEF Typed
  <2>4. \A f \in Existing' : f \in Existing /\ fits(endpoints[f], asked[f])'
    BY <1>1, <2>2, <2>3 DEF Existing, Asked, fits
  <2>5. ASSUME NEW o \in Requests, isUpdate(o)' PROVE UpdateKept(o)'
    <3>1. request'[o] = request[o] /\ o # r /\ isUpdate(o)
      BY <1>1, <1>3, <2>5, End DEF isUpdate
    <3>2. UpdateKept(o) /\ request[o].endpoint \in Endpoints
      BY <3>1, Fields DEF Asked
    <3>3. request[o].endpoint # e
      BY <2>1, <3>1 DEF overlapping
    <3>4. \A f : overlapping(o, f)' \subseteq overlapping(o, f)
      BY <1>3 DEF overlapping, isUpdate
    <3> QED BY <1>1, <2>3, <3>1, <3>2, <3>3, <3>4 DEF UpdateKept, at, fits
  <2> QED BY <2>4, <2>5 DEF Asked
<1> QED BY <1>4, <1>5

LEMMA AskedStep == Typed /\ Related /\ Accepted /\ Asked /\ [Next]_vars => Asked'
<1> SUFFICES ASSUME Typed, Related, Accepted, Asked, [Next]_vars PROVE Asked'
  OBVIOUS
<1>1. CASE UNCHANGED vars
  BY <1>1, SameAsked DEF vars, Existing
<1>2. ASSUME NEW r \in Requests, RequestStep(r) PROVE Asked'
  <2>1. CASE (\E t \in Tenants : RotateKey(r, t)) \/ WriteKey(r) \/ AnswerKey(r)
    BY <2>1, RotationSteps, SameAsked DEF Existing
  <2>2. CASE (\E t \in Tenants : Submit(r, t)) \/ ReadEndpoints(r) \/ CreateForTenant(r) \/ AnswerSubmit(r)
    BY <2>2, IngestionSteps, SameAsked DEF Existing
  <2>3. CASE Fail(r)
    BY <2>3, End, SameAsked DEF Fail, tables, Existing
  <2>4. ASSUME NEW t \in Tenants, CreateEndpoint(r, t) PROVE Asked'
    <3>1. UNCHANGED <<endpoints, asked>>
      BY <2>4 DEF CreateEndpoint, tables, owners
    <3>2. \A o \in Requests : request'[o] = request[o] \/ ~isUpdate(o)'
      BY <2>4 DEF CreateEndpoint, arrive, isUpdate, Typed
    <3> QED BY <3>1, <3>2, SameAsked DEF Existing
  <2> QED BY <1>2, <2>1, <2>2, <2>3, <2>4, InsertAsked, CommitAsked, SettleAsked, BeginAsked DEF RequestStep
<1>3. ASSUME NEW t \in Tenants, DeleteTenant(t) PROVE Asked'
  BY <1>3, SameAsked DEF DeleteTenant, owners, Existing
<1>4. CASE cleanupOldEvents
  BY <1>4, SameAsked DEF cleanupOldEvents, Existing
<1> QED BY <1>1, <1>2, <1>3, <1>4, CreateTenantAsked DEF Next

-----------------------------------------------------------------------------
LEMMA Initially == Init => ApiInv
<1> SUFFICES ASSUME Init PROVE ApiInv
  OBVIOUS
<1>1. Existing = {} /\ \A r \in Requests : request[r].pc = "idle"
  BY DEF Init, Existing, Idle
<1>2. \A t \in Tenants : rotating(t) = {} /\ ~present(t)
  BY <1>1, ApiAssumption DEF Init, rotating, isRotation, present
<1>3. Accepted
  BY <1>1 DEF Init, Accepted, isAnswering
<1>4. FannedOut /\ KeyTold /\ Asked
  BY <1>1, <1>2 DEF FannedOut, KeyTold, Asked, at, isUpdate
<1> QED BY <1>3, <1>4, InitTyped DEF ApiInv

LEMMA Inductive == ApiInv /\ [Next]_vars => ApiInv'
  BY TypedStep, AcceptedStep, FannedOutStep, KeyToldStep, AskedStep DEF ApiInv

LEMMA Invariance == Spec => []ApiInv
  BY Initially, Inductive, PTL DEF Spec

(* The tables hold rows of their types, no two endpoints of a tenant have the  *)
(* same URL, and the tenants hold keys, whatever requests overlap and fail.    *)
THEOREM TypeCorrect == Spec => []TypeOK
<1>1. ApiInv => TypeOK
  BY DEF ApiInv, Typed
<1> QED BY <1>1, Invariance, PTL

(* An idempotency key is accepted once, and what is answered of it is true: of *)
(* createForTenant and the unique index that it and the cleanup rely upon.     *)
THEOREM OnceAccepted == Spec => []AcceptedOnce
<1>1. ApiInv => AcceptedOnce
  <2> SUFFICES ASSUME ApiInv, NEW t \in Tenants, NEW k \in IdempotencyKeys
               PROVE  /\ answers[t][k].accepted <= 1
                      /\ answers[t][k].answered => \E x \in events : x.tenant = t /\ x.key = k
    BY DEF AcceptedOnce
  <2>1. answers[t][k] \in Counts
    BY DEF ApiInv, Typed
  <2>2. answers[t][k].answered => eventsOf(t, k) # {}
    BY DEF ApiInv, Accepted, NoDeliveries
  <2> QED BY <2>1, <2>2 DEF Counts, eventsOf
<1> QED BY <1>1, Invariance, PTL

(* The deliveries of an event are those of the endpoints subscribed at some    *)
(* moment of its request, although CreateForTenant uses what was read before.  *)
THEOREM FanOutRight == Spec => []FanOutWasRight
<1>1. ApiInv => FanOutWasRight
  BY DEF ApiInv, FannedOut, FanOutWasRight
<1> QED BY <1>1, Invariance, PTL

(* A tenant that was told a key gets in with it, but for rotations that        *)
(* overlapped, were not answered or are under way: of updateApiKeyHash and the *)
(* guard that compares hashes.                                                 *)
THEOREM ToldKeyOpens == Spec => []KeyOpens
<1>1. ApiInv => KeyOpens
  <2> SUFFICES ASSUME ApiInv, NEW t \in Tenants, tenants[t] # Nothing, tenants[t].active,
                      rotating(t) = {}, t \notin lapses
               PROVE  authenticated(t)
    BY DEF KeyOpens
  <2>1. present(t)
    BY Present DEF ApiInv
  <2> QED BY <2>1 DEF ApiInv, KeyTold, authenticated
<1> QED BY <1>1, Invariance, PTL

(* Endpoints are what their owners' answered requests asked for, and no more   *)
(* than what was asked where updates overlapped, failed or were not answered:  *)
(* of the transaction of updateForTenant under READ COMMITTED.                 *)
THEOREM EndpointsAsAsked == Spec => []AsAsked
<1>1. ApiInv => AsAsked
  BY DEF ApiInv, Asked, AsAsked, fits
<1> QED BY <1>1, Invariance, PTL
================================================================================
