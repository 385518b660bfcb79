------------------------------ MODULE Pagination ------------------------------
(* The listings of events, deliveries and tenants, and a client that walks     *)
(* through one of them page by page while rows come, go and change.  findAll   *)
(* of each repository reads a page and counts the rows in two queries that run *)
(* side by side; pages are cut by offset from an order by createdAt alone, in  *)
(* which the deliveries one createMany inserts are equal.                      *)
EXTENDS Integers, FiniteSets

CONSTANTS
    Rows,           \* the rows the table may come to hold
    GroupOf,        \* what else a listing selects by: tenant, event, endpoint, type
    Queries,        \* bound: what clients ask for
    LastTime        \* bound: the moments at which rows are created

Status == {"open", "closed"}
Every == "every"

(* What the query DTOs let through: limits of at least 1, dates and statuses.  *)
ValidQueries ==
    [listing : {"events", "deliveries", "tenants"}, group : {GroupOf[r] : r \in Rows},
     status : Status \cup {Every}, from : Nat, to : Nat, limit : 1..100]

ASSUME PaginationAssumption ==
    /\ IsFiniteSet(Rows)
    /\ LastTime \in Nat \ {0}
    /\ \A q \in Queries : q \in ValidQueries

VARIABLES
    table,      \* the rows: createdAt, 0 before the insert, and status
    time,
    query,      \* what the client asks for
    client,     \* its walk
    happened    \* what has come between since it began

vars == <<table, time, query, client, happened>>

(* A walk: the page it is on, which of the two answers it has, what it has     *)
(* seen, whether it has seen a row twice, and what there was when it began.    *)
Walk == [pc : {"idle", "asked", "found", "counted", "done"}, page : 1..Cardinality(Rows),
         total : 0..Cardinality(Rows), seen : SUBSET Rows, repeated : BOOLEAN,
         first : SUBSET Rows]

NoWalk == [pc |-> "idle", page |-> 1, total |-> 0, seen |-> {}, repeated |-> FALSE, first |-> {}]

TypeOK ==
    /\ table \in [Rows -> [createdAt : 0..LastTime, status : Status]]
    /\ time \in 1..LastTime
    /\ query \in Queries
    /\ client \in Walk
    /\ happened \subseteq {"entered", "left", "overtaken", "tied"}

Init ==
    /\ table = [r \in Rows |-> [createdAt |-> 0, status |-> "open"]]
    /\ time = 1
    /\ query \in Queries
    /\ client = NoWalk
    /\ happened = {}

exists(t, r) == t[r].createdAt > 0

(* createdAt >= from and <= to                                                 *)
within(q, row) == q.from <= row.createdAt /\ row.createdAt <= q.to
hasStatus(q, row) == q.status \in {Every, row.status}

(* The three WHERE clauses.  Tenants are listed while isActive, "open" here.   *)
whereEvents(q, t) ==
    {r \in Rows : exists(t, r) /\ GroupOf[r] = q.group /\ hasStatus(q, t[r]) /\ within(q, t[r])}

whereDeliveries(q, t) ==
    {r \in Rows : exists(t, r) /\ GroupOf[r] = q.group /\ hasStatus(q, t[r]) /\ within(q, t[r])}

whereTenants(q, t) == {r \in Rows : exists(t, r) /\ t[r].status = "open"}

listed(q, t) ==
    CASE q.listing = "events" -> whereEvents(q, t)
      [] q.listing = "deliveries" -> whereDeliveries(q, t)
      [] q.listing = "tenants" -> whereTenants(q, t)

-----------------------------------------------------------------------------
(* Mutants: pages are counted from 0, or rows are.                             *)
skip_FromZero(q, page) == page * q.limit
skip_OneByOne(q, page) == page - 1

skip(q, page) == (page - 1) * q.limit

(* Mutants: the page after the next one decides, or an exact fit has a next.   *)
hasNext_Exact(q, page, total) == page * q.limit <= total

hasNext(q, page, total) == page * q.limit < total

(* S can be the first rows of a listing that is ordered by createdAt, newest   *)
(* first, and leaves rows of equal createdAt in whatever order.                *)
isPrefix(S, all) == \A r \in S, o \in all \ S : table[r].createdAt >= table[o].createdAt

size(n, all) == IF n <= Cardinality(all) THEN n ELSE Cardinality(all)

(* The answers OFFSET skip LIMIT limit may give.                               *)
findMany(q, page) ==
    LET all == listed(q, table)
        before == {T \in SUBSET all : Cardinality(T) = size(skip(q, page), all) /\ isPrefix(T, all)}
        upto == {T \in SUBSET all :
                    Cardinality(T) = size(skip(q, page) + q.limit, all) /\ isPrefix(T, all)}
    IN  {p[2] \ p[1] : p \in {p \in before \X upto : p[1] \subseteq p[2]}}

-----------------------------------------------------------------------------
tied(q, t) == \E r, o \in listed(q, t) : r # o /\ t[r].createdAt = t[o].createdAt

StartWalk ==
    /\ client.pc \in {"idle", "done"}
    /\ client' = [NoWalk EXCEPT !.pc = "asked", !.first = listed(query, table)]
    /\ happened' = IF tied(query, table) THEN {"tied"} ELSE {}
    /\ UNCHANGED <<table, time, query>>

(* After both answers the client takes the next page, if there is one.         *)
nextPage(seen, repeated, total) ==
    client' = [client EXCEPT
        !.seen = seen, !.repeated = repeated, !.total = 0,
        !.pc = IF hasNext(query, client.page, total) THEN "asked" ELSE "done",
        !.page = IF hasNext(query, client.page, total) THEN @ + 1 ELSE @]

FindMany ==
    /\ \E S \in findMany(query, client.page) :
          LET seen == client.seen \cup S
              repeated == client.repeated \/ S \cap client.seen # {}
          IN  \/ /\ client.pc = "asked"
                 /\ client' = [client EXCEPT !.pc = "found", !.seen = seen, !.repeated = repeated]
              \/ /\ client.pc = "counted"
                 /\ nextPage(seen, repeated, client.total)
    /\ UNCHANGED <<table, time, query, happened>>

Count ==
    /\ LET total == Cardinality(listed(query, table))
       IN  \/ /\ client.pc = "asked"
              /\ client' = [client EXCEPT !.pc = "counted", !.total = total]
           \/ /\ client.pc = "found"
              /\ nextPage(client.seen, client.repeated, total)
    /\ UNCHANGED <<table, time, query, happened>>

-----------------------------------------------------------------------------
(* A write, and what it does to the listing of the walk under way.  Bound:     *)
(* none between two walks, as the first may begin with any table, and none     *)
(* under a walk that promises nothing any more.                                *)
write(t) ==
    LET was == listed(query, table)
        is == listed(query, t)
    IN  /\ client.pc # "done" /\ (happened \subseteq {"entered"} \/ happened \subseteq {"left"})
        /\ table' = t
        /\ happened' = IF client.pc = "idle" THEN happened
                       ELSE happened \cup {what \in {"entered", "left", "overtaken", "tied"} :
                                CASE what = "entered" -> is \ was # {}
                                  [] what = "left" -> was \ is # {}
                                  [] what = "overtaken" -> client.pc = "counted" /\ is \ was # {}
                                  [] what = "tied" -> tied(query, t)}
        /\ UNCHANGED <<query, client>>

(* A transaction commits the rows it has inserted with the one time at which   *)
(* it began; later ones may have committed before it.                          *)
Insert(S, began) ==
    /\ S # {} /\ \A r \in S : ~exists(table, r)
    /\ write([r \in Rows |-> IF r \in S THEN [createdAt |-> began, status |-> "open"]
                             ELSE table[r]])
    /\ UNCHANGED time

SetStatus(r, status) ==
    /\ exists(table, r)
    /\ write([table EXCEPT ![r].status = status])
    /\ UNCHANGED time

(* Clean-up of old events deletes them, and their deliveries with them.        *)
Delete(r) ==
    /\ exists(table, r)
    /\ write([table EXCEPT ![r] = [createdAt |-> 0, status |-> "open"]])
    /\ UNCHANGED time

Clock ==
    /\ client.pc # "done"
    /\ time < LastTime
    /\ time' = time + 1
    /\ UNCHANGED <<table, query, client, happened>>

Next ==
    \/ StartWalk \/ FindMany \/ Count \/ Clock
    \/ \E S \in SUBSET Rows, began \in {time, time - 1} \ {0} : Insert(S, began)
    \/ \E r \in Rows : Delete(r) \/ \E status \in Status : SetStatus(r, status)

Spec == Init /\ [][Next]_vars

-----------------------------------------------------------------------------
(* WalkComplete: a client that follows hasNext to the end has seen every row   *)
(* that was listed when it began, unless a row has left the listing, which     *)
(* moves the others a place forward, a row has entered between the count and   *)
(* the rows of one page, or rows are equal in the order.                       *)
WalkComplete ==
    client.pc = "done" /\ happened \subseteq {"entered"} => client.first \subseteq client.seen

(* SeenOnce: it sees no row twice unless one enters the listing or rows are    *)
(* equal in the order: rows that leave only move others to earlier pages.      *)
SeenOnce == happened \subseteq {"left"} => ~client.repeated
=============================================================================
