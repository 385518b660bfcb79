--------------------------- MODULE PaginationProofs ---------------------------
(* Proofs about Pagination: for any number of rows, any filter, any limit and  *)
(* any writes in between, what a client that follows hasNext misses or sees    *)
(* twice has one of the causes the properties name.                            *)
EXTENDS Pagination, FiniteSetTheorems, TLAPS

Listed == listed(query, table)

-----------------------------------------------------------------------------
(* Sizes, and products with a limit.                                           *)
LEMMA ListedExist ==
    ASSUME NEW q \in Queries, NEW t
    PROVE  listed(q, t) \subseteq {r \in Rows : exists(t, r)}
<1>1. q.listing \in {"events", "deliveries", "tenants"}
  BY PaginationAssumption DEF ValidQueries
<1>2. CASE q.listing = "events"
  BY <1>2 DEF listed, whereEvents
<1>3. CASE q.listing = "deliveries"
  <2>1. q.listing # "events"
    BY <1>3
  <2> QED BY <1>3, <2>1 DEF listed, whereDeliveries
<1>4. CASE q.listing = "tenants"
  <2>1. q.listing # "events" /\ q.listing # "deliveries"
    BY <1>4
  <2> QED BY <1>4, <2>1 DEF listed, whereTenants
<1> QED BY <1>1, <1>2, <1>3, <1>4

LEMMA ListedRows ==
    ASSUME NEW q \in Queries, NEW t
    PROVE  /\ listed(q, t) \subseteq Rows
           /\ IsFiniteSet(Rows) /\ Cardinality(Rows) \in Nat
           /\ IsFiniteSet(listed(q, t)) /\ Cardinality(listed(q, t)) \in 0..Cardinality(Rows)
<1>1. listed(q, t) \subseteq Rows
  BY ListedExist
<1>2. IsFiniteSet(Rows) /\ Cardinality(Rows) \in Nat
  BY PaginationAssumption, FS_CardinalityType
<1>3. IsFiniteSet(listed(q, t)) /\ Cardinality(listed(q, t)) <= Cardinality(Rows)
  BY <1>1, <1>2, FS_Subset
<1>4. Cardinality(listed(q, t)) \in Nat
  BY <1>3, FS_CardinalityType
<1> QED BY <1>1, <1>2, <1>3, <1>4

LEMMA QueryTyped ==
    ASSUME query \in Queries
    PROVE  /\ query.limit \in 1..100 /\ Rows # {}
           /\ query.listing \in {"events", "deliveries", "tenants"}
<1>1. query \in ValidQueries
  BY PaginationAssumption
<1>2. query.limit \in 1..100 /\ query.group \in {GroupOf[r] : r \in Rows}
      /\ query.listing \in {"events", "deliveries", "tenants"}
  BY <1>1 DEF ValidQueries
<1> QED BY <1>2

LEMMA Offsets ==
    ASSUME NEW page \in Nat \ {0}, NEW limit \in Nat \ {0}
    PROVE  /\ page * limit \in Nat /\ page * limit >= page
           /\ (page - 1) * limit \in Nat
           /\ (page - 1) * limit + limit = page * limit
           /\ (page + 1 - 1) * limit = page * limit
BY SMT

(* Of two beginnings of a listing without ties, the smaller is part of the     *)
(* other.                                                                      *)
LEMMA PrefixesNested ==
    ASSUME query \in Queries, table \in [Rows -> [createdAt : 0..LastTime, status : Status]],
           ~tied(query, table),
           NEW P \in SUBSET Listed, isPrefix(P, Listed),
           NEW U \in SUBSET Listed, isPrefix(U, Listed), Cardinality(P) <= Cardinality(U)
    PROVE  P \subseteq U
<1>1. P \subseteq U \/ U \subseteq P
  <2> SUFFICES ASSUME NEW r \in P \ U, NEW o \in U \ P PROVE FALSE
    OBVIOUS
  <2>1. r \in Rows /\ o \in Rows /\ r # o /\ r \in Listed /\ o \in Listed
    BY ListedRows DEF Listed
  <2>2. table[r].createdAt >= table[o].createdAt /\ table[o].createdAt >= table[r].createdAt
    BY <2>1 DEF isPrefix
  <2>3. table[r].createdAt \in Int /\ table[o].createdAt \in Int
    BY <2>1, PaginationAssumption
  <2>4. table[r].createdAt = table[o].createdAt
    BY <2>2, <2>3
  <2> QED BY <2>1, <2>4 DEF tied, Listed
<1>2. IsFiniteSet(P) /\ IsFiniteSet(U)
  BY ListedRows, FS_Subset DEF Listed
<1>3. ASSUME U \subseteq P PROVE P = U
  <2>1. Cardinality(U) <= Cardinality(P) /\ (Cardinality(P) = Cardinality(U) => P = U)
    BY <1>2, <1>3, FS_Subset
  <2>2. Cardinality(P) \in Nat /\ Cardinality(U) \in Nat
    BY <1>2, FS_CardinalityType
  <2> QED BY <2>1, <2>2
<1> QED BY <1>1, <1>3

-----------------------------------------------------------------------------
(* The types.                                                                  *)
LEMMA InitTyped == Init => TypeOK
<1> SUFFICES ASSUME Init PROVE TypeOK
  OBVIOUS
<1>1. 1 \in 1..Cardinality(Rows) /\ 0 \in 0..Cardinality(Rows)
  <2>1. Cardinality(Rows) \in Nat /\ Cardinality(Rows) # 0
    BY ListedRows, QueryTyped, FS_EmptySet DEF Init
  <2> QED BY <2>1
<1>2. client \in Walk
  BY <1>1 DEF Init, NoWalk, Walk
<1>3. table \in [Rows -> [createdAt : 0..LastTime, status : Status]] /\ time \in 1..LastTime
  BY PaginationAssumption DEF Init, Status
<1> QED BY <1>2, <1>3 DEF Init, TypeOK

(* A client only asks for a page that the count says exists.                   *)
LEMMA NextPageTyped ==
    ASSUME TypeOK, NEW seen \in SUBSET Rows, NEW repeated \in BOOLEAN,
           NEW total \in 0..Cardinality(Rows), nextPage(seen, repeated, total)
    PROVE  client' \in Walk
<1>1. client.page \in 1..Cardinality(Rows) /\ client \in Walk
  BY DEF TypeOK, Walk
<1>2. hasNext(query, client.page, total) => client.page + 1 \in 1..Cardinality(Rows)
  <2>1. Cardinality(Rows) \in Nat /\ query.limit \in Nat \ {0} /\ client.page \in Nat \ {0}
    BY <1>1, ListedRows, QueryTyped DEF TypeOK
  <2>2. client.page * query.limit >= client.page /\ client.page * query.limit \in Nat
    BY <2>1, Offsets
  <2>3. hasNext(query, client.page, total) => client.page * query.limit < total
    BY DEF hasNext
  <2> QED BY <1>1, <2>1, <2>2, <2>3
<1>3. 0 \in 0..Cardinality(Rows)
  BY ListedRows DEF TypeOK
<1>4. CASE hasNext(query, client.page, total)
  <2>1. client' = [client EXCEPT !.seen = seen, !.repeated = repeated, !.total = 0,
                                 !.pc = "asked", !.page = @ + 1]
    BY <1>4 DEF nextPage
  <2> QED BY <1>1, <1>2, <1>3, <1>4, <2>1 DEF Walk
<1>5. CASE ~hasNext(query, client.page, total)
  <2>1. client' = [client EXCEPT !.seen = seen, !.repeated = repeated, !.total = 0, !.pc = "done"]
    BY <1>1, <1>5 DEF nextPage, Walk
  <2> QED BY <1>1, <1>3, <2>1 DEF Walk
<1> QED BY <1>4, <1>5

LEMMA FoundRows ==
    ASSUME NEW S \in findMany(query, client.page)
    PROVE  \E T, U \in SUBSET Listed :
              /\ S = U \ T /\ T \subseteq U
              /\ isPrefix(T, Listed) /\ Cardinality(T) = size(skip(query, client.page), Listed)
              /\ isPrefix(U, Listed)
              /\ Cardinality(U) = size(skip(query, client.page) + query.limit, Listed)
BY DEF findMany, Listed

LEMMA WalkTyped == TypeOK /\ (StartWalk \/ FindMany \/ Count) => TypeOK'
<1> SUFFICES ASSUME TypeOK, StartWalk \/ FindMany \/ Count PROVE TypeOK'
  OBVIOUS
<1>1. CASE StartWalk
  <2>1. 1 \in 1..Cardinality(Rows) /\ 0 \in 0..Cardinality(Rows)
    <3>1. Cardinality(Rows) \in Nat /\ Cardinality(Rows) # 0
      BY ListedRows, QueryTyped, FS_EmptySet DEF TypeOK
    <3> QED BY <3>1
  <2>2. listed(query, table) \subseteq Rows
    BY ListedRows DEF TypeOK
  <2>3. client' \in Walk
    BY <1>1, <2>1, <2>2 DEF StartWalk, NoWalk, Walk
  <2> QED BY <1>1, <2>3 DEF StartWalk, TypeOK
<1>2. CASE FindMany
  <2>1. PICK S \in findMany(query, client.page) :
          LET seen == client.seen \cup S
              repeated == client.repeated \/ S \cap client.seen # {}
          IN  \/ /\ client.pc = "asked"
                 /\ client' = [client EXCEPT !.pc = "found", !.seen = seen, !.repeated = repeated]
              \/ /\ client.pc = "counted"
                 /\ nextPage(seen, repeated, client.total)
    BY <1>2 DEF FindMany
  <2> DEFINE seen == client.seen \cup S
             repeated == client.repeated \/ S \cap client.seen # {}
  <2>2. client \in Walk
    BY DEF TypeOK
  <2>3. seen \in SUBSET Rows /\ repeated \in BOOLEAN /\ client.total \in 0..Cardinality(Rows)
    BY <2>2, FoundRows, ListedRows DEF Listed, Walk, TypeOK
  <2>4. client' \in Walk
    <3>1. CASE client.pc = "asked"
      <4> HIDE DEF seen, repeated
      <4>1. client' = [client EXCEPT !.pc = "found", !.seen = seen, !.repeated = repeated]
        BY <2>1, <3>1 DEF seen, repeated
      <4> QED BY <2>2, <2>3, <4>1 DEF Walk
    <3>2. CASE client.pc = "counted"
      BY <2>1, <2>3, <3>2, NextPageTyped
    <3> QED BY <2>1, <3>1, <3>2
  <2> QED BY <1>2, <2>4 DEF FindMany, TypeOK
<1>3. CASE Count
  <2>1. Cardinality(listed(query, table)) \in 0..Cardinality(Rows)
    BY ListedRows DEF TypeOK
  <2>2. client \in Walk
    BY DEF TypeOK
  <2>3. client' \in Walk
    <3>1. CASE client.pc = "asked"
      BY <1>3, <2>1, <2>2, <3>1 DEF Count, Walk
    <3>2. CASE client.pc = "found"
      <4>1. nextPage(client.seen, client.repeated, Cardinality(listed(query, table)))
        BY <1>3, <3>2 DEF Count
      <4>2. client.seen \in SUBSET Rows /\ client.repeated \in BOOLEAN
        BY <2>2 DEF Walk
      <4> QED BY <2>1, <4>1, <4>2, NextPageTyped
    <3> QED BY <1>3, <3>1, <3>2 DEF Count
  <2> QED BY <1>3, <2>3 DEF Count, TypeOK
<1> QED BY <1>1, <1>2, <1>3

(* A write, whatever makes it.                                                 *)
Writes(t) ==
    /\ t \in [Rows -> [createdAt : 0..LastTime, status : Status]]
    /\ \A r \in Rows : exists(table, r) /\ exists(t, r) => t[r].createdAt = table[r].createdAt
    /\ write(t)
    /\ UNCHANGED time

Write ==
    \/ \E S \in SUBSET Rows, began \in {time, time - 1} \ {0} : Insert(S, began)
    \/ \E r \in Rows : Delete(r) \/ \E status \in Status : SetStatus(r, status)

LEMMA WriteKinds == TypeOK /\ Write => \E t : Writes(t)
<1> SUFFICES ASSUME TypeOK, Write PROVE \E t : Writes(t)
  OBVIOUS
<1>1. ASSUME NEW S \in SUBSET Rows, NEW began \in {time, time - 1} \ {0}, Insert(S, began)
      PROVE  \E t : Writes(t)
  <2> DEFINE t == [r \in Rows |-> IF r \in S THEN [createdAt |-> began, status |-> "open"]
                                  ELSE table[r]]
  <2>1. began \in 0..LastTime
    BY PaginationAssumption DEF TypeOK
  <2>2. t \in [Rows -> [createdAt : 0..LastTime, status : Status]]
    BY <2>1 DEF TypeOK, Status
  <2>3. \A r \in Rows : exists(table, r) => t[r] = table[r]
    BY <1>1 DEF Insert
  <2> QED BY <1>1, <2>2, <2>3 DEF Writes, Insert
<1>2. ASSUME NEW r \in Rows, Delete(r) PROVE \E t : Writes(t)
  <2> DEFINE t == [table EXCEPT ![r] = [createdAt |-> 0, status |-> "open"]]
  <2>1. 0 \in 0..LastTime
    BY PaginationAssumption
  <2>2. t \in [Rows -> [createdAt : 0..LastTime, status : Status]]
    BY <2>1 DEF TypeOK, Status
  <2>3. \A o \in Rows : o # r => t[o] = table[o]
    BY DEF TypeOK
  <2>4. ~exists(t, r)
    BY DEF exists, TypeOK
  <2> QED BY <1>2, <2>2, <2>3, <2>4 DEF Writes, Delete
<1>3. ASSUME NEW r \in Rows, NEW status \in Status, SetStatus(r, status) PROVE \E t : Writes(t)
  <2> DEFINE t == [table EXCEPT ![r].status = status]
  <2>1. t \in [Rows -> [createdAt : 0..LastTime, status : Status]]
    BY DEF TypeOK
  <2>2. \A o \in Rows : t[o].createdAt = table[o].createdAt
    BY DEF TypeOK
  <2> QED BY <1>3, <2>1, <2>2 DEF Writes, SetStatus
<1> QED BY <1>1, <1>2, <1>3 DEF Write

LEMMA NextTyped == TypeOK /\ [Next]_vars => TypeOK'
<1> SUFFICES ASSUME TypeOK, [Next]_vars PROVE TypeOK'
  OBVIOUS
<1>1. CASE StartWalk \/ FindMany \/ Count
  BY <1>1, WalkTyped
<1>2. CASE Clock
  BY <1>2, PaginationAssumption DEF Clock, TypeOK
<1>3. CASE Write
  <2>1. PICK t : Writes(t)
    BY <1>3, WriteKinds
  <2>2. table' \in [Rows -> [createdAt : 0..LastTime, status : Status]]
        /\ UNCHANGED <<time, query, client>>
    BY <2>1 DEF Writes, write
  <2>3. happened' \subseteq {"entered", "left", "overtaken", "tied"}
    BY <2>1 DEF Writes, write, TypeOK
  <2> QED BY <2>2, <2>3 DEF TypeOK
<1>4. CASE UNCHANGED vars
  BY <1>4 DEF vars, TypeOK
<1> QED BY <1>1, <1>2, <1>3, <1>4 DEF Next, Write

-----------------------------------------------------------------------------
(* What a walk has read.                                                       *)
Walking == client.pc \in {"asked", "found", "counted"}

RowsRead == (IF client.pc = "found" THEN client.page ELSE client.page - 1) * query.limit

(* Of the rows there were when the walk began, those among the first n are in  *)
(* seen.                                                                       *)
ReadUpTo(n, seen) ==
    \A P \in SUBSET Listed :
        isPrefix(P, Listed) /\ Cardinality(P) <= n => P \cap client.first \subseteq seen

(* While rows only enter, those sought are still listed, have been seen as far *)
(* as the walk has got, and the count, if it came first, is right.             *)
SoughtInv ==
    Walking /\ happened \subseteq {"entered"} =>
        /\ client.first \subseteq Listed /\ ~tied(query, table)
        /\ ReadUpTo(RowsRead, client.seen)
        /\ client.pc = "counted" => client.total = Cardinality(Listed)

(* What has been seen and is still listed is among the first n.                *)
SeenWithin(n, seen) ==
    \A P \in SUBSET Listed :
        isPrefix(P, Listed) /\ Cardinality(P) >= n => seen \cap Listed \subseteq P

(* While rows only leave, that is so as far as the walk has got.               *)
SeenInv ==
    Walking /\ happened \subseteq {"left"} =>
        ~tied(query, table) /\ SeenWithin(RowsRead, client.seen)

WalkInv == TypeOK /\ SoughtInv /\ WalkComplete

RepeatInv == WalkInv /\ SeenInv /\ SeenOnce

LEMMA WalkTypes ==
    ASSUME TypeOK
    PROVE  /\ client.pc \in {"idle", "asked", "found", "counted", "done"}
           /\ client.page \in Nat \ {0} /\ query.limit \in Nat \ {0} /\ query \in Queries
           /\ client.first \in SUBSET Rows /\ client.seen \in SUBSET Rows
           /\ client.total \in Nat /\ client \in Walk
           /\ skip(query, client.page) = (client.page - 1) * query.limit
           /\ skip(query, client.page) + query.limit = client.page * query.limit
           /\ (client.page - 1) * query.limit \in Nat /\ client.page * query.limit \in Nat
           /\ (client.page + 1 - 1) * query.limit = client.page * query.limit
<1>1. /\ client.page \in Nat \ {0} /\ client \in Walk /\ client.total \in Nat
      /\ client.pc \in {"idle", "asked", "found", "counted", "done"}
      /\ client.first \in SUBSET Rows /\ client.seen \in SUBSET Rows
  BY DEF TypeOK, Walk
<1>2. query.limit \in Nat \ {0} /\ query \in Queries
  BY QueryTyped DEF TypeOK
<1>3. skip(query, client.page) = (client.page - 1) * query.limit
  BY DEF skip
<1>4. /\ client.page * query.limit \in Nat
      /\ (client.page - 1) * query.limit \in Nat
      /\ (client.page - 1) * query.limit + query.limit = client.page * query.limit
      /\ (client.page + 1 - 1) * query.limit = client.page * query.limit
  BY <1>1, <1>2, Offsets
<1> QED BY <1>1, <1>2, <1>3, <1>4

LEMMA Sizes ==
    ASSUME TypeOK, NEW n \in Nat, NEW P \in SUBSET Listed
    PROVE  /\ IsFiniteSet(P) /\ Cardinality(P) \in Nat /\ Cardinality(Listed) \in Nat
           /\ IsFiniteSet(Listed) /\ Cardinality(P) <= Cardinality(Listed)
           /\ size(n, Listed) \in Nat /\ size(n, Listed) <= n
           /\ Cardinality(P) <= n => Cardinality(P) <= size(n, Listed)
<1>1. IsFiniteSet(Listed) /\ Cardinality(Listed) \in Nat
  BY ListedRows DEF TypeOK, Listed
<1>2. IsFiniteSet(P) /\ Cardinality(P) <= Cardinality(Listed)
  BY <1>1, FS_Subset
<1>3. Cardinality(P) \in Nat
  BY <1>2, FS_CardinalityType
<1>4. size(n, Listed) \in Nat /\ size(n, Listed) <= n
  BY <1>1 DEF size
<1>5. Cardinality(P) <= n => Cardinality(P) <= size(n, Listed)
  BY <1>1, <1>2 DEF size
<1> QED BY <1>1, <1>2, <1>3, <1>4, <1>5

(* The rows of a page, added to what was read before it, leave no gap.         *)
LEMMA PageRead ==
    ASSUME TypeOK, ~tied(query, table), NEW S \in findMany(query, client.page),
           ReadUpTo((client.page - 1) * query.limit, client.seen)
    PROVE  ReadUpTo(client.page * query.limit, client.seen \cup S)
<1> SUFFICES ASSUME NEW P \in SUBSET Listed, isPrefix(P, Listed),
                    Cardinality(P) <= client.page * query.limit,
                    NEW r \in P \cap client.first
             PROVE  r \in client.seen \cup S
  BY DEF ReadUpTo
<1>1. PICK T, U \in SUBSET Listed :
         /\ S = U \ T /\ T \subseteq U
         /\ isPrefix(T, Listed) /\ Cardinality(T) = size(skip(query, client.page), Listed)
         /\ isPrefix(U, Listed)
         /\ Cardinality(U) = size(skip(query, client.page) + query.limit, Listed)
  BY FoundRows
<1>2. /\ Cardinality(T) = size((client.page - 1) * query.limit, Listed)
      /\ Cardinality(U) = size(client.page * query.limit, Listed)
      /\ (client.page - 1) * query.limit \in Nat /\ client.page * query.limit \in Nat
  BY <1>1, WalkTypes
<1>3. Cardinality(P) <= Cardinality(U)
  BY <1>2, Sizes
<1>4. r \in U
  BY <1>1, <1>3, PrefixesNested DEF TypeOK
<1>5. T \cap client.first \subseteq client.seen
  <2>1. Cardinality(T) <= (client.page - 1) * query.limit
    BY <1>2, Sizes
  <2> QED BY <1>1, <2>1 DEF ReadUpTo
<1> QED BY <1>1, <1>4, <1>5

(* A page holds none of the rows seen before it.                               *)
LEMMA PageNew ==
    ASSUME TypeOK, ~tied(query, table), NEW S \in findMany(query, client.page),
           SeenWithin((client.page - 1) * query.limit, client.seen)
    PROVE  /\ S \cap client.seen = {}
           /\ SeenWithin(client.page * query.limit, client.seen \cup S)
<1>1. PICK T, U \in SUBSET Listed :
         /\ S = U \ T /\ T \subseteq U
         /\ isPrefix(T, Listed) /\ Cardinality(T) = size(skip(query, client.page), Listed)
         /\ isPrefix(U, Listed)
         /\ Cardinality(U) = size(skip(query, client.page) + query.limit, Listed)
  BY FoundRows
<1> DEFINE n == (client.page - 1) * query.limit
           m == client.page * query.limit
<1>2. /\ Cardinality(T) = size(n, Listed) /\ Cardinality(U) = size(m, Listed)
      /\ n \in Nat /\ m \in Nat /\ n <= m
  BY <1>1, WalkTypes
<1>3. /\ Cardinality(Listed) \in Nat /\ IsFiniteSet(Listed)
      /\ Cardinality(T) \in Nat /\ Cardinality(U) \in Nat
      /\ Cardinality(U) <= m /\ Cardinality(U) <= Cardinality(Listed)
  BY <1>2, Sizes
<1> HIDE DEF n, m
<1>4. S \cap client.seen = {}
  <2>1. CASE Cardinality(T) >= n
    <3>1. client.seen \cap Listed \subseteq T
      BY <1>1, <2>1 DEF SeenWithin, n
    <3> QED BY <1>1, <3>1
  <2>2. CASE ~(Cardinality(T) >= n)
    <3>1. Cardinality(T) = Cardinality(Listed)
      BY <1>2, <1>3, <2>2 DEF size
    <3>2. T = Listed
      BY <1>1, <1>3, <3>1, FS_Subset
    <3> QED BY <1>1, <3>2
  <2> QED BY <2>1, <2>2
<1>5. ASSUME NEW P \in SUBSET Listed, isPrefix(P, Listed), Cardinality(P) >= m
      PROVE  (client.seen \cup S) \cap Listed \subseteq P
  <2>1. Cardinality(P) \in Nat /\ Cardinality(P) >= n /\ Cardinality(U) <= Cardinality(P)
    BY <1>2, <1>3, <1>5, Sizes
  <2>2. client.seen \cap Listed \subseteq P
    BY <1>5, <2>1 DEF SeenWithin, n
  <2>3. U \subseteq P
    BY <1>1, <1>5, <2>1, PrefixesNested DEF TypeOK
  <2> QED BY <1>1, <2>2, <2>3
<1> QED BY <1>4, <1>5 DEF SeenWithin, m

(* The end of a page: on to the next, or everything sought has been seen.      *)
LEMMA NextPageSought ==
    ASSUME TypeOK, NEW seen \in SUBSET Rows, NEW repeated \in BOOLEAN,
           nextPage(seen, repeated, Cardinality(Listed)), UNCHANGED <<table, query, happened>>,
           happened \subseteq {"entered"} =>
               /\ client.first \subseteq Listed /\ ~tied(query, table)
               /\ ReadUpTo(client.page * query.limit, seen)
    PROVE  SoughtInv' /\ WalkComplete'
<1> USE WalkTypes
<1>1. Listed' = Listed /\ tied(query, table)' = tied(query, table)
  BY DEF Listed
<1>2. CASE hasNext(query, client.page, Cardinality(Listed))
  <2>1. client' = [client EXCEPT !.seen = seen, !.repeated = repeated, !.total = 0,
                                 !.pc = "asked", !.page = @ + 1]
    BY <1>2 DEF nextPage
  <2>2. /\ client'.pc = "asked" /\ client'.page = client.page + 1 /\ client'.seen = seen
        /\ client'.first = client.first
    BY <2>1 DEF Walk
  <2>3. RowsRead' = client.page * query.limit
    BY <2>2 DEF RowsRead
  <2>4. SoughtInv'
    <3> SUFFICES ASSUME happened \subseteq {"entered"}
                 PROVE  /\ client'.first \subseteq Listed' /\ ~tied(query, table)'
                        /\ ReadUpTo(RowsRead, client.seen)'
      BY <2>2 DEF SoughtInv
    <3>1. ReadUpTo(RowsRead, client.seen)'
      BY <1>1, <2>2, <2>3 DEF ReadUpTo, isPrefix
    <3> QED BY <1>1, <2>2, <3>1
  <2> QED BY <2>2, <2>4 DEF WalkComplete
<1>3. CASE ~hasNext(query, client.page, Cardinality(Listed))
  <2>1. client' = [client EXCEPT !.seen = seen, !.repeated = repeated, !.total = 0, !.pc = "done"]
    BY <1>3 DEF nextPage, Walk
  <2>2. client'.pc = "done" /\ client'.seen = seen /\ client'.first = client.first
    BY <2>1 DEF Walk
  <2>3. WalkComplete'
    <3> SUFFICES ASSUME happened \subseteq {"entered"} PROVE client.first \subseteq seen
      BY <2>2 DEF WalkComplete
    <3>1. Cardinality(Listed) <= client.page * query.limit
      <4>1. Cardinality(Listed) \in Nat
        BY ListedRows DEF Listed, TypeOK
      <4> QED BY <1>3, <4>1 DEF hasNext
    <3>2. isPrefix(Listed, Listed)
      BY DEF isPrefix
    <3> QED BY <3>1, <3>2 DEF ReadUpTo
  <2> QED BY <2>2, <2>3 DEF SoughtInv, Walking
<1> QED BY <1>2, <1>3

LEMMA SoughtWalk == WalkInv /\ (StartWalk \/ FindMany \/ Count) => SoughtInv' /\ WalkComplete'
<1> SUFFICES ASSUME WalkInv, StartWalk \/ FindMany \/ Count PROVE SoughtInv' /\ WalkComplete'
  OBVIOUS
<1> USE WalkTypes DEF WalkInv
<1>1. CASE StartWalk
  <2>1. /\ client' = [NoWalk EXCEPT !.pc = "asked", !.first = Listed]
        /\ Listed' = Listed /\ tied(query, table)' = tied(query, table)
        /\ happened' = IF tied(query, table) THEN {"tied"} ELSE {}
    BY <1>1 DEF StartWalk, Listed
  <2>2. client'.pc = "asked" /\ client'.page = 1 /\ client'.first = Listed
    BY <2>1 DEF NoWalk
  <2>3. RowsRead' = 0
    <3>1. query' = query
      BY <1>1 DEF StartWalk
    <3> QED BY <2>2, <3>1 DEF RowsRead
  <2>4. ReadUpTo(RowsRead, client.seen)'
    <3> SUFFICES ASSUME NEW P \in SUBSET Listed, Cardinality(P) <= 0 PROVE P = {}
      BY <2>1, <2>3 DEF ReadUpTo
    <3>1. IsFiniteSet(P) /\ Cardinality(P) \in Nat
      BY Sizes, 0 \in Nat
    <3>2. Cardinality(P) = 0
      BY <3>1
    <3> QED BY <3>1, <3>2, FS_EmptySet
  <2>5. happened' \subseteq {"entered"} => ~tied(query, table)'
    BY <2>1
  <2> QED BY <2>1, <2>2, <2>4, <2>5 DEF SoughtInv, WalkComplete
<1>2. CASE FindMany
  <2>1. PICK S \in findMany(query, client.page) :
          LET seen == client.seen \cup S
              repeated == client.repeated \/ S \cap client.seen # {}
          IN  \/ /\ client.pc = "asked"
                 /\ client' = [client EXCEPT !.pc = "found", !.seen = seen, !.repeated = repeated]
              \/ /\ client.pc = "counted"
                 /\ nextPage(seen, repeated, client.total)
    BY <1>2 DEF FindMany
  <2> DEFINE seen == client.seen \cup S
             repeated == client.repeated \/ S \cap client.seen # {}
  <2>2. UNCHANGED <<table, query, happened>> /\ Listed' = Listed
        /\ tied(query, table)' = tied(query, table)
    BY <1>2 DEF FindMany, Listed
  <2>3. seen \in SUBSET Rows /\ repeated \in BOOLEAN
    BY FoundRows, ListedRows DEF Listed, Walk
  <2>4. client.pc \in {"asked", "counted"}
    BY <2>1
  <2>5. happened \subseteq {"entered"} =>
            /\ client.first \subseteq Listed /\ ~tied(query, table)
            /\ ReadUpTo(client.page * query.limit, seen)
            /\ client.pc = "counted" => client.total = Cardinality(Listed)
    <3> SUFFICES ASSUME happened \subseteq {"entered"}
                 PROVE  /\ client.first \subseteq Listed /\ ~tied(query, table)
                        /\ ReadUpTo(client.page * query.limit, seen)
                        /\ client.pc = "counted" => client.total = Cardinality(Listed)
      OBVIOUS
    <3>1. /\ client.first \subseteq Listed /\ ~tied(query, table)
          /\ ReadUpTo(RowsRead, client.seen)
          /\ client.pc = "counted" => client.total = Cardinality(Listed)
      BY <2>4 DEF SoughtInv, Walking
    <3>2. RowsRead = (client.page - 1) * query.limit
      BY <2>4 DEF RowsRead
    <3>3. ReadUpTo(client.page * query.limit, seen)
      BY <3>1, <3>2, PageRead
    <3> QED BY <3>1, <3>3
  <2>6. CASE client.pc = "asked"
    <3> HIDE DEF seen, repeated
    <3>1. client' = [client EXCEPT !.pc = "found", !.seen = seen, !.repeated = repeated]
      BY <2>1, <2>6 DEF seen, repeated
    <3>2. /\ client'.pc = "found" /\ client'.page = client.page /\ client'.seen = seen
          /\ client'.first = client.first
      BY <3>1 DEF Walk
    <3>3. RowsRead' = client.page * query.limit
      BY <2>2, <3>2 DEF RowsRead
    <3>4. happened \subseteq {"entered"} => ReadUpTo(RowsRead, client.seen)'
      BY <2>2, <2>5, <3>2, <3>3 DEF ReadUpTo, isPrefix
    <3>5. SoughtInv'
      BY <2>2, <2>5, <3>2, <3>4 DEF SoughtInv
    <3> QED BY <3>2, <3>5 DEF WalkComplete
  <2>7. CASE client.pc = "counted"
    <3> HIDE DEF seen, repeated
    <3>1. nextPage(seen, repeated, client.total)
      BY <2>1, <2>7 DEF seen, repeated
    <3>2. CASE happened \subseteq {"entered"}
      BY <2>2, <2>3, <2>5, <2>7, <3>1, <3>2, NextPageSought
    <3>3. CASE ~(happened \subseteq {"entered"})
      BY <2>2, <3>3 DEF SoughtInv, WalkComplete
    <3> QED BY <3>2, <3>3
  <2> QED BY <2>4, <2>6, <2>7
<1>3. CASE Count
  <2>1. UNCHANGED <<table, query, happened>> /\ Listed' = Listed
        /\ tied(query, table)' = tied(query, table)
    BY <1>3 DEF Count, Listed
  <2>2. CASE client.pc = "asked"
    <3>1. client' = [client EXCEPT !.pc = "counted", !.total = Cardinality(Listed)]
      BY <1>3, <2>2 DEF Count, Listed
    <3>2. /\ client'.pc = "counted" /\ client'.page = client.page /\ client'.seen = client.seen
          /\ client'.first = client.first /\ client'.total = Cardinality(Listed)
      BY <3>1 DEF Walk
    <3>3. RowsRead' = RowsRead
      BY <2>1, <2>2, <3>2 DEF RowsRead
    <3>4. ReadUpTo(RowsRead, client.seen)' = ReadUpTo(RowsRead, client.seen)
      BY <2>1, <3>2, <3>3 DEF ReadUpTo, isPrefix
    <3>5. SoughtInv'
      BY <2>1, <2>2, <3>2, <3>4 DEF SoughtInv, Walking
    <3> QED BY <3>2, <3>5 DEF WalkComplete
  <2>3. CASE client.pc = "found"
    <3>1. nextPage(client.seen, client.repeated, Cardinality(Listed))
      BY <1>3, <2>3 DEF Count, Listed
    <3>2. client.seen \in SUBSET Rows /\ client.repeated \in BOOLEAN
      BY DEF Walk
    <3>3. RowsRead = client.page * query.limit
      BY <2>3 DEF RowsRead
    <3>4. happened \subseteq {"entered"} =>
             /\ client.first \subseteq Listed /\ ~tied(query, table)
             /\ ReadUpTo(client.page * query.limit, client.seen)
      BY <2>3, <3>3 DEF SoughtInv, Walking
    <3> QED BY <2>1, <3>1, <3>2, <3>4, NextPageSought
  <2> QED BY <1>3, <2>2, <2>3 DEF Count
<1> QED BY <1>1, <1>2, <1>3

(* What a write under a walk leaves alone, told by what it adds to happened.   *)
LEMMA WriteHappens ==
    ASSUME TypeOK, NEW t, Writes(t), client.pc # "idle"
    PROVE  /\ client.pc # "done" /\ UNCHANGED <<query, client>> /\ table' = t
           /\ happened \subseteq happened'
           /\ "entered" \notin happened' => Listed' \subseteq Listed
           /\ "left" \notin happened' => Listed \subseteq Listed'
           /\ "overtaken" \notin happened' /\ client.pc = "counted" => Listed' \subseteq Listed
           /\ "tied" \notin happened' => ~tied(query, table)'
           /\ \A r \in Listed \cap Listed' : table'[r].createdAt = table[r].createdAt
<1>1. client.pc # "done" /\ UNCHANGED <<query, client>> /\ table' = t
  BY DEF Writes, write
<1>2. /\ happened' = happened \cup {what \in {"entered", "left", "overtaken", "tied"} :
                                CASE what = "entered" -> Listed' \ Listed # {}
                                  [] what = "left" -> Listed \ Listed' # {}
                                  [] what = "overtaken" -> client.pc = "counted" /\ Listed' \ Listed # {}
                                  [] what = "tied" -> tied(query, table)'}
  <2>1. Listed' = listed(query, t) /\ tied(query, table)' = tied(query, t)
    BY <1>1 DEF Listed, tied, exists
  <2> QED BY <1>1, <2>1 DEF Writes, write, Listed
<1>3. happened \subseteq happened'
  BY <1>2
<1>4. "entered" \notin happened' => Listed' \subseteq Listed
  BY <1>2
<1>5. "left" \notin happened' => Listed \subseteq Listed'
  BY <1>2
<1>6. "overtaken" \notin happened' /\ client.pc = "counted" => Listed' \subseteq Listed
  BY <1>2
<1>7. "tied" \notin happened' => ~tied(query, table)'
  BY <1>2
<1>8. \A r \in Listed \cap Listed' : table'[r].createdAt = table[r].createdAt
  BY <1>1, ListedExist DEF Listed, TypeOK, Writes
<1> QED BY <1>1, <1>3, <1>4, <1>5, <1>6, <1>7, <1>8

LEMMA SoughtWrite ==
    ASSUME WalkInv, NEW t, Writes(t)
    PROVE  SoughtInv' /\ WalkComplete'
<1> USE DEF WalkInv
<1>1. client' = client /\ query' = query /\ client.pc # "done"
  BY DEF Writes, write
<1>2. WalkComplete'
  BY <1>1 DEF WalkComplete
<1>3. SoughtInv'
  <2> SUFFICES ASSUME Walking, happened' \subseteq {"entered"}
               PROVE  /\ client.first \subseteq Listed' /\ ~tied(query, table)'
                      /\ ReadUpTo(RowsRead, client.seen)'
                      /\ client.pc = "counted" => client.total = Cardinality(Listed')
    BY <1>1 DEF SoughtInv, Walking
  <2>1. client.pc # "idle" /\ "left" \notin happened' /\ "tied" \notin happened'
        /\ "overtaken" \notin happened'
    BY DEF Walking
  <2>2. /\ happened \subseteq {"entered"} /\ Listed \subseteq Listed' /\ ~tied(query, table)'
        /\ client.pc = "counted" => Listed' \subseteq Listed
        /\ \A r \in Listed : table'[r].createdAt = table[r].createdAt
    BY <2>1, WriteHappens
  <2>3. /\ client.first \subseteq Listed /\ ReadUpTo(RowsRead, client.seen)
        /\ client.pc = "counted" => client.total = Cardinality(Listed)
    BY <2>2 DEF SoughtInv
  <2>4. ReadUpTo(RowsRead, client.seen)'
    <3>1. RowsRead' = RowsRead
      BY <1>1 DEF RowsRead
    <3> SUFFICES ASSUME NEW P \in SUBSET Listed', isPrefix(P, Listed)', Cardinality(P) <= RowsRead
                 PROVE  P \cap client.first \subseteq client.seen
      BY <1>1, <3>1 DEF ReadUpTo
    <3> DEFINE Q == P \cap Listed
    <3>2. Q \in SUBSET Listed
      OBVIOUS
    <3>3. isPrefix(Q, Listed)
      BY <2>2 DEF isPrefix
    <3>4. Cardinality(Q) <= RowsRead
      <4>1. IsFiniteSet(Listed')
        BY <1>1, ListedRows DEF Listed, TypeOK
      <4>2. IsFiniteSet(P)
        BY <4>1, FS_Subset
      <4>3. Cardinality(Q) <= Cardinality(P) /\ IsFiniteSet(Q)
        BY <4>2, FS_Subset
      <4>4. Cardinality(Q) \in Nat /\ Cardinality(P) \in Nat /\ RowsRead \in Nat
        <5>1. Cardinality(Q) \in Nat /\ Cardinality(P) \in Nat
          BY <4>2, <4>3, FS_CardinalityType
        <5>2. RowsRead \in Nat
          BY WalkTypes DEF RowsRead
        <5> QED BY <5>1, <5>2
      <4> QED BY <4>3, <4>4
    <3>5. Q \cap client.first \subseteq client.seen
      BY <2>3, <3>2, <3>3, <3>4 DEF ReadUpTo
    <3> QED BY <2>3, <3>5
  <2>5. client.pc = "counted" => Listed' = Listed
    BY <2>2
  <2> QED BY <2>2, <2>3, <2>4, <2>5
<1> QED BY <1>2, <1>3

LEMMA InitSought == Init => WalkInv
BY InitTyped DEF Init, NoWalk, WalkInv, SoughtInv, WalkComplete, Walking

LEMMA NextSought == WalkInv /\ [Next]_vars => WalkInv'
<1> SUFFICES ASSUME WalkInv, [Next]_vars PROVE WalkInv'
  OBVIOUS
<1>1. TypeOK'
  BY NextTyped DEF WalkInv
<1>2. CASE StartWalk \/ FindMany \/ Count
  BY <1>1, <1>2, SoughtWalk DEF WalkInv
<1>3. CASE Write
  BY <1>1, <1>3, WriteKinds, SoughtWrite DEF WalkInv
<1>4. CASE Clock \/ UNCHANGED vars
  <2>1. UNCHANGED <<table, query, client, happened>>
    BY <1>4 DEF Clock, vars
  <2>2. SoughtInv' = SoughtInv
    BY <2>1 DEF SoughtInv, Walking, RowsRead, ReadUpTo, Listed, isPrefix, listed, whereEvents,
                whereDeliveries, whereTenants, tied, exists
  <2> QED BY <1>1, <2>1, <2>2 DEF WalkInv, WalkComplete
<1> QED BY <1>2, <1>3, <1>4 DEF Next, Write

-----------------------------------------------------------------------------
(* Rows seen twice.                                                            *)
LEMMA SeenWalk == RepeatInv /\ (StartWalk \/ FindMany \/ Count) => SeenInv' /\ SeenOnce'
<1> SUFFICES ASSUME RepeatInv, StartWalk \/ FindMany \/ Count, happened' \subseteq {"left"}
             PROVE  /\ client'.pc \in {"asked", "found", "counted"} =>
                         ~tied(query, table)' /\ SeenWithin(RowsRead, client.seen)'
                    /\ ~client'.repeated
  BY DEF SeenInv, SeenOnce, Walking
<1> USE WalkTypes DEF RepeatInv, WalkInv
<1>1. CASE StartWalk
  <2>1. /\ client' = [NoWalk EXCEPT !.pc = "asked", !.first = listed(query, table)]
        /\ query' = query /\ table' = table
        /\ happened' = IF tied(query, table) THEN {"tied"} ELSE {}
    BY <1>1 DEF StartWalk
  <2>2. client'.seen = {} /\ client'.repeated = FALSE
    BY <2>1 DEF NoWalk
  <2>3. ~tied(query, table) /\ tied(query, table)' = tied(query, table)
    BY <2>1 DEF tied, listed, whereEvents, whereDeliveries, whereTenants, exists
  <2> QED BY <2>2, <2>3 DEF SeenWithin
<1>2. CASE FindMany \/ Count
  <2>1. /\ UNCHANGED <<table, query>> /\ happened' = happened
        /\ client.pc \in {"asked", "found", "counted"}
    BY <1>2 DEF FindMany, Count
  <2>2. Listed' = Listed /\ tied(query, table)' = tied(query, table)
    BY <2>1 DEF Listed, tied, listed, whereEvents, whereDeliveries, whereTenants, exists
  <2>3. ~tied(query, table) /\ ~client.repeated /\ SeenWithin(RowsRead, client.seen)
    BY <2>1 DEF SeenInv, SeenOnce, Walking
  <2> DEFINE Goal == /\ client'.pc \in {"asked", "found", "counted"} =>
                           ~tied(query, table)' /\ SeenWithin(RowsRead, client.seen)'
                     /\ ~client'.repeated
  <2>4. ASSUME NEW seen, client'.seen = seen, client'.repeated = FALSE,
               \/ client'.pc = "done"
               \/ SeenWithin(RowsRead', seen)
        PROVE  Goal
    BY <2>1, <2>2, <2>3, <2>4 DEF SeenWithin, isPrefix
  <2>5. ASSUME NEW seen, NEW total, SeenWithin(client.page * query.limit, seen),
               nextPage(seen, FALSE, total)
        PROVE  Goal
    <3>1. CASE hasNext(query, client.page, total)
      <4>1. client' = [client EXCEPT !.seen = seen, !.repeated = FALSE, !.total = 0,
                                     !.pc = "asked", !.page = @ + 1]
        BY <2>5, <3>1 DEF nextPage
      <4>2. /\ client'.pc = "asked" /\ client'.page = client.page + 1 /\ client'.seen = seen
            /\ client'.repeated = FALSE
        BY <4>1 DEF Walk
      <4>3. RowsRead' = client.page * query.limit
        BY <2>1, <4>2 DEF RowsRead
      <4> HIDE DEF Goal
      <4> QED BY <2>4, <2>5, <4>2, <4>3
    <3>2. CASE ~hasNext(query, client.page, total)
      <4>1. client' = [client EXCEPT !.seen = seen, !.repeated = FALSE, !.total = 0, !.pc = "done"]
        BY <2>5, <3>2 DEF nextPage, Walk
      <4>2. client'.pc = "done" /\ client'.seen = seen /\ client'.repeated = FALSE
        BY <4>1 DEF Walk
      <4> HIDE DEF Goal
      <4> QED BY <2>4, <2>5, <4>2
    <3> QED BY <3>1, <3>2
  <2> SUFFICES Goal
    OBVIOUS
  <2> HIDE DEF Goal
  <2>6. CASE FindMany
    <3>1. PICK S \in findMany(query, client.page) :
            LET seen == client.seen \cup S
                repeated == client.repeated \/ S \cap client.seen # {}
            IN  \/ /\ client.pc = "asked"
                   /\ client' = [client EXCEPT !.pc = "found", !.seen = seen, !.repeated = repeated]
                \/ /\ client.pc = "counted"
                   /\ nextPage(seen, repeated, client.total)
      BY <2>6 DEF FindMany
    <3> DEFINE seen == client.seen \cup S
    <3>2. client.pc \in {"asked", "counted"}
      BY <3>1
    <3>3. RowsRead = (client.page - 1) * query.limit
      BY <3>2 DEF RowsRead
    <3>4. S \cap client.seen = {} /\ SeenWithin(client.page * query.limit, seen)
      BY <2>3, <3>3, PageNew
    <3>5. (client.repeated \/ S \cap client.seen # {}) = FALSE
      BY <2>3, <3>4 DEF Walk
    <3> HIDE DEF seen
    <3>6. CASE client.pc = "asked"
      <4>1. client' = [client EXCEPT !.pc = "found", !.seen = seen, !.repeated = FALSE]
        BY <3>1, <3>5, <3>6 DEF seen
      <4>2. /\ client'.pc = "found" /\ client'.page = client.page /\ client'.seen = seen
            /\ client'.repeated = FALSE
        BY <4>1 DEF Walk
      <4>3. RowsRead' = client.page * query.limit
        BY <2>1, <4>2 DEF RowsRead
      <4> QED BY <2>4, <3>4, <4>2, <4>3
    <3>7. CASE client.pc = "counted"
      <4>1. nextPage(seen, FALSE, client.total)
        BY <3>1, <3>5, <3>7 DEF seen
      <4> QED BY <2>5, <3>4, <4>1
    <3> QED BY <3>2, <3>6, <3>7
  <2>7. CASE Count
    <3>1. client.repeated = FALSE
      BY <2>3 DEF Walk
    <3>2. CASE client.pc = "asked"
      <4>1. client' = [client EXCEPT !.pc = "counted", !.total = Cardinality(listed(query, table))]
        BY <2>7, <3>2 DEF Count
      <4>2. /\ client'.pc = "counted" /\ client'.page = client.page
            /\ client'.seen = client.seen /\ client'.repeated = client.repeated
        BY <4>1 DEF Walk
      <4>3. RowsRead' = RowsRead
        BY <2>1, <3>2, <4>2 DEF RowsRead
      <4> QED BY <2>3, <2>4, <3>1, <4>2, <4>3
    <3>3. CASE client.pc = "found"
      <4>1. nextPage(client.seen, FALSE, Cardinality(listed(query, table)))
        BY <2>7, <3>1, <3>3 DEF Count
      <4>2. RowsRead = client.page * query.limit
        BY <3>3 DEF RowsRead
      <4> QED BY <2>3, <2>5, <4>1, <4>2
    <3> QED BY <3>2, <3>3, <2>7 DEF Count
  <2> QED BY <1>2, <2>6, <2>7
<1> QED BY <1>1, <1>2

(* When rows leave, what begins the listing now is also in any beginning of    *)
(* the listing before that goes as far.                                        *)
LEMMA SeenShrinks ==
    ASSUME TypeOK, TypeOK', ~tied(query, table), UNCHANGED query, Listed' \subseteq Listed,
           \A r \in Listed' : table'[r].createdAt = table[r].createdAt,
           NEW n \in Nat, NEW seen \in SUBSET Rows, SeenWithin(n, seen)
    PROVE  SeenWithin(n, seen)'
<1> SUFFICES ASSUME NEW P \in SUBSET Listed', isPrefix(P, Listed)', Cardinality(P) >= n,
                    NEW r \in seen \cap Listed'
             PROVE  r \in P
  BY DEF SeenWithin, isPrefix
<1>0. Listed \subseteq Rows /\ \A o \in Rows : table[o].createdAt \in Int
  BY ListedRows DEF TypeOK, Listed
<1> DEFINE Q == {o \in Listed : \E p \in P : table[o].createdAt >= table[p].createdAt}
<1>1. P \subseteq Q
  BY <1>0
<1>2. Cardinality(Q) >= n
  <2>1. IsFiniteSet(Q) /\ Cardinality(Q) \in Nat
    BY Sizes
  <2>2. IsFiniteSet(P) /\ Cardinality(P) <= Cardinality(Q)
    BY <1>1, <2>1, FS_Subset
  <2>3. Cardinality(P) \in Nat
    BY <2>2, FS_CardinalityType
  <2> QED BY <2>1, <2>2, <2>3
<1>3. isPrefix(Q, Listed)
  <2> SUFFICES ASSUME NEW q \in Q, NEW o \in Listed \ Q
               PROVE  table[q].createdAt >= table[o].createdAt
    BY DEF isPrefix
  <2>1. PICK p \in P : table[q].createdAt >= table[p].createdAt
    OBVIOUS
  <2>2. ~(table[o].createdAt >= table[p].createdAt)
    OBVIOUS
  <2> QED BY <1>0, <2>1, <2>2
<1>4. r \in Q
  BY <1>2, <1>3 DEF SeenWithin
<1>5. PICK p \in P : table[r].createdAt >= table[p].createdAt
  BY <1>4
<1>6. r \notin P => table[p].createdAt >= table[r].createdAt
  BY DEF isPrefix
<1>7. r \notin P => table[p].createdAt = table[r].createdAt /\ p # r
  BY <1>0, <1>5, <1>6
<1> QED BY <1>7 DEF tied, Listed

LEMMA SeenWrite ==
    ASSUME RepeatInv, TypeOK', NEW t, Writes(t)
    PROVE  SeenInv' /\ SeenOnce'
<1> USE DEF RepeatInv, WalkInv
<1>1. client' = client /\ query' = query
  BY DEF Writes, write
<1>2. CASE client.pc = "idle"
  <2>1. happened' = happened
    BY <1>2 DEF Writes, write
  <2> QED BY <1>1, <1>2, <2>1 DEF SeenInv, SeenOnce, Walking
<1>3. CASE client.pc # "idle"
  <2> SUFFICES ASSUME happened' \subseteq {"left"} PROVE SeenInv' /\ SeenOnce'
    BY DEF SeenInv, SeenOnce
  <2>1. /\ happened \subseteq {"left"} /\ Listed' \subseteq Listed /\ ~tied(query, table)'
        /\ \A r \in Listed' : table'[r].createdAt = table[r].createdAt
    BY <1>3, WriteHappens
  <2>2. SeenOnce'
    BY <1>1, <2>1 DEF SeenOnce
  <2>3. RowsRead' = RowsRead /\ Walking' = Walking /\ RowsRead \in Nat
    BY <1>1, WalkTypes DEF RowsRead, Walking
  <2>4. ASSUME Walking PROVE SeenWithin(RowsRead, client.seen)'
    <3>1. ~tied(query, table) /\ SeenWithin(RowsRead, client.seen)
      BY <2>1, <2>4 DEF SeenInv
    <3>2. PICK n \in Nat, seen \in SUBSET Rows : n = RowsRead /\ seen = client.seen
      BY <2>3, WalkTypes
    <3>3. SeenWithin(n, seen)
      BY <3>1, <3>2
    <3>4. SeenWithin(n, seen)'
      BY <1>1, <2>1, <3>1, <3>3, SeenShrinks
    <3> QED BY <1>1, <2>3, <3>2, <3>4 DEF SeenWithin
  <2> QED BY <2>1, <2>2, <2>3, <2>4 DEF SeenInv
<1> QED BY <1>2, <1>3

LEMMA InitSeen == Init => RepeatInv
BY InitSought DEF Init, NoWalk, RepeatInv, SeenInv, SeenOnce, Walking

LEMMA NextSeen == RepeatInv /\ [Next]_vars => RepeatInv'
<1> SUFFICES ASSUME RepeatInv, [Next]_vars PROVE RepeatInv'
  OBVIOUS
<1>1. WalkInv'
  BY NextSought DEF RepeatInv
<1>2. CASE StartWalk \/ FindMany \/ Count
  BY <1>1, <1>2, SeenWalk DEF RepeatInv
<1>3. CASE Write
  BY <1>1, <1>3, WriteKinds, SeenWrite DEF RepeatInv, WalkInv
<1>4. CASE Clock \/ UNCHANGED vars
  <2>1. UNCHANGED <<table, query, client, happened>>
    BY <1>4 DEF Clock, vars
  <2>2. SeenInv' = SeenInv
    BY <2>1 DEF SeenInv, SeenWithin, Walking, RowsRead, Listed, isPrefix, tied, listed,
                whereEvents, whereDeliveries, whereTenants, exists
  <2> QED BY <1>1, <2>1, <2>2 DEF RepeatInv, SeenOnce
<1> QED BY <1>2, <1>3, <1>4 DEF Next, Write

-----------------------------------------------------------------------------
(* TypeCorrect: a walk keeps its type for every table: a client never asks for *)
(* a page beyond those that could be filled, however the count changes.        *)
THEOREM TypeCorrect == Spec => []TypeOK
BY InitTyped, NextTyped, PTL DEF Spec

(* WalkNeverMisses: however many rows there are, and whatever is inserted, a   *)
(* client that follows hasNext to the end has seen every row there was when it *)
(* began, unless a row left the listing, one entered between the count and the *)
(* rows of a page, or rows have equal createdAt.                               *)
THEOREM WalkNeverMisses == Spec => []WalkComplete
<1>1. WalkInv => WalkComplete
  BY DEF WalkInv
<1> QED BY <1>1, InitSought, NextSought, PTL DEF Spec

(* WalkNeverRepeats: while rows only leave a listing that has no ties, its     *)
(* pages have no row in common, for any limit.                                 *)
THEOREM WalkNeverRepeats == Spec => []SeenOnce
<1>1. RepeatInv => SeenOnce
  BY DEF RepeatInv
<1> QED BY <1>1, InitSeen, NextSeen, PTL DEF Spec
=============================================================================
