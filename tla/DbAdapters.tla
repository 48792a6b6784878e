----------------------------- MODULE DbAdapters -----------------------------
(***************************************************************************)
(* Queries to one external database: the registry that creates its adapter *)
(* at the first query, and the adapter, which opens its connection when it *)
(* has none and closes it five minutes after the last query. Queries of    *)
(* several dashboards run concurrently: everything between two awaits is   *)
(* one action.                                                             *)
(*                                                                         *)
(* The eight adapters differ in how the variable that holds the connection *)
(* (pool, client, connection or db; here the handle) is set. Left out:     *)
(* disconnectAll, which runs right before the process exits, and BigQuery, *)
(* whose client holds no connection. A query is shorter than the idle time *)
(* (query_timeout, 30 s by default).                                       *)
(***************************************************************************)
EXTENDS Naturals, FiniteSets

CONSTANTS
    Queries,      \* callers, each with one query at a time
    Adapters,     \* numbers for adapter objects
    Conns,        \* numbers for connections
    Kinds,        \* the adapters considered, a subset of AllKinds
    Env           \* what may happen, a subset of AllEvents

Immediate == {"sqlite"}               \* opened synchronously
Verified  == {"pool", "clickhouse"}   \* (pool: postgres, mysql) set, then tried out
Shared    == {"duckdb"}               \* set after an await that the callers share
Awaited   == {"mssql", "snowflake"}   \* set after an await of each caller
AllEvents == {"failures",    \* a creation or an opening fails
              "slowOpens"}   \* the idle timer may fire while one is under way
AllKinds  == Immediate \cup Verified \cup Shared \cup Awaited

ASSUME AdapterAssumption ==
    /\ Adapters \subseteq Nat \ {0}
    /\ Conns \subseteq Nat \ {0}
    /\ 0 \notin Queries
    /\ Kinds \subseteq AllKinds
    /\ Env \subseteq AllEvents

VARIABLES
    kind,         \* the adapter of this database
    registered,   \* the adapter object in the registry's map, 0 if none
    created,      \* how many adapter objects were created
    pending,      \* the caller that is creating one, 0 if none
    query,        \* per caller: where it is, on which adapter and connection
    handle,       \* per adapter object, the connection it holds, 0 if none
    opening,      \* per adapter object, the connection callers wait for (duckdb)
    timer,        \* per adapter object, whether the idle timer is armed
    open          \* the connections that are open

vars == <<kind, registered, created, pending, query, handle, opening, timer, open>>

NoQuery == [at |-> "idle", on |-> 0, conn |-> 0, of |-> 0]

Init ==
    /\ kind \in Kinds
    /\ registered = 0
    /\ created = 0
    /\ pending = 0
    /\ query = [q \in Queries |-> NoQuery]
    /\ handle = [a \in Adapters |-> 0]
    /\ opening = [a \in Adapters |-> 0]
    /\ timer = [a \in Adapters |-> FALSE]
    /\ open = {}

\* A connection that is neither open nor held nor being opened.
Fresh(c) ==
    /\ c \in Conns \ open
    /\ \A a \in Adapters : c \notin {handle[a], opening[a]}
    /\ \A q \in Queries : query[q].conn # c

-----------------------------------------------------------------------------
(* The registry *)

\* Fault: a creation that is under way is not looked for.
CreatesOwnAlways(q) == registered = 0

\* A query that finds neither an adapter nor one in creation creates it.
CreatesOwn(q) == registered = 0 /\ pending = 0

Asked(q) ==
    IF registered # 0 THEN [NoQuery EXCEPT !.at = "adapter", !.on = registered]
    ELSE IF CreatesOwn(q) THEN [NoQuery EXCEPT !.at = "creating", !.of = q]
    ELSE [NoQuery EXCEPT !.at = "inflight", !.of = pending]

Ask(q) ==
    /\ query[q] = NoQuery
    /\ query' = [query EXCEPT ![q] = Asked(q)]
    /\ pending' = IF Asked(q).at = "creating" THEN q ELSE pending
    /\ UNCHANGED <<kind, registered, created, handle, opening, timer, open>>

\* The creation is settled for everyone who awaits it.
Settle(q, outcome) ==
    query' = [p \in Queries |-> IF query[p].of = q THEN outcome ELSE query[p]]

Created(q) ==
    /\ query[q].at = "creating"
    /\ created + 1 \in Adapters
    /\ created' = created + 1
    /\ registered' = created + 1
    /\ pending' = 0
    /\ Settle(q, [NoQuery EXCEPT !.at = "adapter", !.on = created + 1])
    /\ UNCHANGED <<kind, handle, opening, timer, open>>

CreationFails(q) ==
    /\ "failures" \in Env
    /\ query[q].at = "creating"
    /\ pending' = 0
    /\ Settle(q, NoQuery)
    /\ UNCHANGED <<kind, registered, created, handle, opening, timer, open>>

-----------------------------------------------------------------------------
(* The adapter *)

Registry == <<kind, registered, created, pending>>

Armed(a) == timer' = [timer EXCEPT ![a] = TRUE]

\* connect() is skipped when the adapter says it is connected.
SkipConnect(q) ==
    /\ query[q].at = "adapter"
    /\ handle[query[q].on] # 0
    /\ query' = [query EXCEPT ![q].at = "connected"]
    /\ UNCHANGED <<Registry, handle, opening, timer, open>>

\* The caller needs a connection, in connect() or, when it is gone again, in query().
Needs(q) ==
    /\ query[q].at \in {"adapter", "connected"}
    /\ handle[query[q].on] = 0

\* Where the caller is once it has what it needed.
Afterwards(at) == IF at = "adapter" THEN "connected" ELSE "running"

\* ensureDb of sqlite, ensurePool and ensureClient of the pools: no await. In
\* connect() a pool is tried out before the idle timer is armed.
OpenAtOnce(q, c) ==
    LET a == query[q].on IN
    /\ kind \in Immediate \cup Verified
    /\ Needs(q)
    /\ Fresh(c)
    /\ handle' = [handle EXCEPT ![a] = c]
    /\ IF kind \in Verified /\ query[q].at = "adapter"
       THEN /\ query' = [query EXCEPT ![q].at = "verifying", ![q].conn = c]
            /\ UNCHANGED <<timer, open>>
       ELSE /\ query' = [query EXCEPT ![q].at = Afterwards(@), ![q].conn = c]
            /\ Armed(a)
            /\ open' = open \cup {c}
    /\ UNCHANGED <<Registry, opening>>

\* c, unless the idle timer or a failed caller has closed it.
Usable(a, c) ==
    ({c} \cap {handle[a]}) \ {query[p].conn : p \in {r \in Queries : query[r].at = "closing"}}

\* The round trip of connect() went well.
Verify(q) ==
    LET a == query[q].on IN
    /\ query[q].at = "verifying"
    /\ open' = open \cup Usable(a, query[q].conn)
    /\ Armed(a)
    /\ query' = [query EXCEPT ![q].at = "connected", ![q].conn = 0]
    /\ UNCHANGED <<Registry, handle, opening>>

\* It failed: clickhouse closes the client it has now, the pools stay as they are.
VerifyFails(q) ==
    LET a == query[q].on IN
    /\ "failures" \in Env
    /\ query[q].at = "verifying"
    /\ query' = [query EXCEPT ![q] =
                    IF kind = "clickhouse" /\ handle[a] # 0
                    THEN [@ EXCEPT !.at = "closing", !.conn = handle[a]] ELSE NoQuery]
    /\ open' = IF kind = "clickhouse" THEN open \ {handle[a]} ELSE open
    /\ UNCHANGED <<Registry, handle, opening, timer>>

\* After the await of close() the handle is cleared, and the query fails.
ClearHandle(q) ==
    /\ query[q].at = "closing"
    /\ handle' = [handle EXCEPT ![query[q].on] = 0]
    /\ query' = [query EXCEPT ![q] = NoQuery]
    /\ UNCHANGED <<Registry, opening, timer, open>>

\* Fault: the callers of duckdb do not share the database that is being opened.
JoinsNone(a) == FALSE

\* Whether a caller joins the opening that another one began (dbPending).
Joins(a) == kind \in Shared /\ opening[a] # 0

\* ensurePool of mssql, ensureConnection of snowflake, ensureDb of duckdb: await.
OpenAwaiting(q, c) ==
    LET a == query[q].on IN
    /\ kind \in Shared \cup Awaited
    /\ Needs(q)
    /\ IF Joins(a) THEN c = opening[a] ELSE Fresh(c)
    /\ opening' = IF kind \in Shared THEN [opening EXCEPT ![a] = c] ELSE opening
    /\ query' = [query EXCEPT ![q] =
                    [@ EXCEPT !.at = IF @ = "adapter" THEN "opening" ELSE "reopening", !.conn = c]]
    /\ UNCHANGED <<Registry, handle, timer, open>>

\* The callers that wait for what q waits for.
Waiting(q) == {p \in Queries : /\ query[p].at \in {"opening", "reopening"}
                               /\ query[p].conn = query[q].conn}

\* The connection is there and becomes the handle, also when another caller's is.
\* Snowflake sets a timeout on it, and when that fails the query fails.
Opened(q) ==
    LET a == query[q].on
        c == query[q].conn IN
    /\ query[q].at \in {"opening", "reopening"}
    /\ handle' = [handle EXCEPT ![a] = c]
    /\ opening' = [opening EXCEPT ![a] = 0]
    /\ open' = open \cup {c}
    /\ \E altered \in IF kind = "snowflake" /\ "failures" \in Env THEN BOOLEAN ELSE {TRUE} :
        /\ timer' = IF altered THEN [timer EXCEPT ![a] = TRUE] ELSE timer
        /\ query' = [p \in Queries |->
                        IF p \notin Waiting(q) THEN query[p]
                        ELSE IF ~altered THEN NoQuery
                        ELSE IF query[p].at = "opening"
                             THEN [query[p] EXCEPT !.at = "connected", !.conn = 0]
                             ELSE [query[p] EXCEPT !.at = "running"]]
    /\ UNCHANGED Registry

OpenFails(q) ==
    LET a == query[q].on IN
    /\ "failures" \in Env
    /\ query[q].at \in {"opening", "reopening"}
    /\ opening' = [opening EXCEPT ![a] = 0]
    /\ query' = [p \in Queries |-> IF p \in Waiting(q) THEN NoQuery ELSE query[p]]
    /\ UNCHANGED <<Registry, handle, timer, open>>

\* query() on the connection the adapter holds; one that is being closed stays so.
Run(q) ==
    LET a == query[q].on IN
    /\ query[q].at = "connected"
    /\ handle[a] # 0
    /\ Armed(a)
    /\ open' = open \cup Usable(a, handle[a])
    /\ query' = [query EXCEPT ![q].at = "running", ![q].conn = handle[a]]
    /\ UNCHANGED <<Registry, handle, opening>>

\* With rows or with an error.
Finish(q) ==
    /\ query[q].at = "running"
    /\ query' = [query EXCEPT ![q] = NoQuery]
    /\ UNCHANGED <<Registry, handle, opening, timer, open>>

\* Five minutes after the last query: none has just armed the timer or still runs.
IdleTimeout(a) ==
    /\ timer[a]
    /\ \A q \in Queries : query[q].on = a =>
            query[q].at \in {"idle"} \cup
                (IF "slowOpens" \in Env THEN {"verifying", "opening", "reopening"} ELSE {})
    /\ timer' = [timer EXCEPT ![a] = FALSE]
    /\ open' = open \ {handle[a]}
    /\ handle' = [handle EXCEPT ![a] = 0]
    /\ UNCHANGED <<Registry, query, opening>>

Next ==
    \/ \E q \in Queries :
        \/ Ask(q) \/ Created(q) \/ CreationFails(q) \/ SkipConnect(q)
        \/ \E c \in Conns : OpenAtOnce(q, c) \/ OpenAwaiting(q, c)
        \/ Verify(q) \/ VerifyFails(q) \/ ClearHandle(q) \/ Opened(q) \/ OpenFails(q)
        \/ Run(q) \/ Finish(q)
    \/ \E a \in Adapters : IdleTimeout(a)

Spec == Init /\ [][Next]_vars

-----------------------------------------------------------------------------
(* Properties *)

TypeOK ==
    /\ registered \in Adapters \cup {0}
    /\ pending \in Queries \cup {0}
    /\ handle \in [Adapters -> Conns \cup {0}]
    /\ timer \in [Adapters -> BOOLEAN]
    /\ open \subseteq Conns

\* Queries that come while the adapter is being created get the one that is then
\* registered: there are no two adapters, with two pools, for a database.
OneAdapter == \A q \in Queries : query[q].on \in {0, registered}

\* An open connection is in use by a query of its adapter, or it is the one the
\* adapter holds and the timer that closes it is armed (the adapters' headers:
\* "tears it down after 5 minutes of inactivity").
TornDown ==
    \A c \in open : \E a \in Adapters :
        /\ handle[a] = c
        /\ timer[a] \/ \E q \in Queries : query[q].on = a
=============================================================================
