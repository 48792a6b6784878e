------------------------- MODULE DbAdapters_proofs -------------------------
(***************************************************************************)
(* One adapter for a database, for any number of callers; and, for the     *)
(* adapters whose callers share their handle, every open connection is the *)
(* one the adapter holds, with the timer armed that closes it.             *)
(***************************************************************************)
EXTENDS DbAdapters, TLAPS

-----------------------------------------------------------------------------
(* The invariant *)

AtAdapter == {"adapter", "verifying", "opening", "reopening", "connected", "closing", "running"}
AtRegistry == {"creating", "inflight"}

QueryRecords ==
    [at : {"idle"} \cup AtRegistry \cup AtAdapter, on : Adapters \cup {0}, conn : Conns \cup {0},
     of : Queries \cup {0}]

Typed ==
    /\ kind \in Kinds
    /\ registered \in Adapters \cup {0}
    /\ created \in Nat
    /\ pending \in Queries \cup {0}
    /\ query \in [Queries -> QueryRecords]
    /\ handle \in [Adapters -> Conns \cup {0}]
    /\ opening \in [Adapters -> Conns \cup {0}]
    /\ timer \in [Adapters -> BOOLEAN]

(* Callers that wait for a creation wait for the one that is under way; the others
   have nothing or are with the adapter that is registered.                      *)
Creation ==
    /\ registered # 0 => pending = 0
    /\ \A q \in Queries :
        /\ query[q].at = "creating" => pending = q
        /\ query[q].at \in AtRegistry =>
                query[q].of = pending /\ pending \in Queries /\ query[q].on = 0
        /\ query[q].at \notin AtRegistry => query[q].of = 0
        /\ query[q].at = "idle" => query[q].on = 0
        /\ query[q].at \in AtAdapter => query[q].on = registered /\ registered \in Adapters

RegistryInv == Typed /\ Creation

-----------------------------------------------------------------------------
(* What a query becomes in a step *)

\* Caller p stays as it is, or goes on with its adapter, or is done with it.
Continues(p) ==
    \/ query'[p] = query[p]
    \/ query[p].at \in AtAdapter /\ query'[p] = NoQuery
    \/ /\ query[p].at \in AtAdapter /\ query'[p].at \in AtAdapter
       /\ query'[p].on = query[p].on /\ query'[p].of = query[p].of

(* The record of a query that is not there. *)
LEMMA NoQueryTyped ==
    /\ NoQuery \in QueryRecords
    /\ NoQuery.at = "idle" /\ NoQuery.on = 0 /\ NoQuery.conn = 0 /\ NoQuery.of = 0
BY DEF NoQuery, QueryRecords

(* 0 names no query, no adapter and no connection. *)
LEMMA ZeroIsNothing == 0 \notin Queries /\ 0 \notin Adapters /\ 0 \notin Conns
BY AdapterAssumption

(* A step of an adapter keeps what is known of the registry. *)
LEMMA ContinuesKeeps ==
    ASSUME Creation, UNCHANGED <<registered, pending>>, \A p \in Queries : Continues(p)
    PROVE  Creation'
<1>1. ASSUME NEW p \in Queries
      PROVE  /\ query'[p].at = "creating" => pending' = p
             /\ query'[p].at \in AtRegistry =>
                    query'[p].of = pending' /\ pending' \in Queries /\ query'[p].on = 0
             /\ query'[p].at \notin AtRegistry => query'[p].of = 0
             /\ query'[p].at = "idle" => query'[p].on = 0
             /\ query'[p].at \in AtAdapter => query'[p].on = registered' /\ registered' \in Adapters
  <2>1. CASE query'[p] = query[p]
    BY <2>1 DEF Creation
  <2>2. CASE query'[p] = NoQuery
    BY <2>2, NoQueryTyped DEF AtRegistry, AtAdapter
  <2>3. CASE /\ query[p].at \in AtAdapter /\ query'[p].at \in AtAdapter
             /\ query'[p].on = query[p].on /\ query'[p].of = query[p].of
    BY <2>3 DEF Creation, AtRegistry, AtAdapter
  <2> QED BY <2>1, <2>2, <2>3 DEF Continues
<1> QED BY <1>1 DEF Creation

\* The query of q moves on, to this place and connection.
Goes(q, at, conn) ==
    /\ query' \in [Queries -> QueryRecords]
    /\ query'[q].at = at /\ query'[q].conn = conn
    /\ query'[q].on = query[q].on /\ query'[q].of = query[q].of
    /\ \A p \in Queries \ {q} : query'[p] = query[p]

\* The query of q ends.
Ends(q) ==
    /\ query' \in [Queries -> QueryRecords]
    /\ query'[q] = NoQuery
    /\ \A p \in Queries \ {q} : query'[p] = query[p]

(* A step of one query at its adapter leaves the others where they are. *)
LEMMA GoesContinues ==
    ASSUME NEW q \in Queries, query[q].at \in AtAdapter,
           Ends(q) \/ \E at \in AtAdapter : \E conn : Goes(q, at, conn)
    PROVE  \A p \in Queries : Continues(p)
<1>1. CASE Ends(q)
  BY <1>1 DEF Ends, Continues
<1>2. ASSUME NEW at \in AtAdapter, NEW conn, Goes(q, at, conn)
      PROVE  \A p \in Queries : Continues(p)
  BY <1>2 DEF Goes, Continues
<1> QED BY <1>1, <1>2

-----------------------------------------------------------------------------
(* The registry *)

(* At first nothing is registered and nobody creates. *)
LEMMA InitRegistry == Init => RegistryInv
BY NoQueryTyped DEF Init, RegistryInv, Typed, Creation, AtRegistry, AtAdapter

(* getAdapter: finds the adapter, joins the creation under way, or begins one. *)
LEMMA AskKeeps ==
    ASSUME RegistryInv, NEW q \in Queries, Ask(q)
    PROVE  RegistryInv' /\ \A p \in Queries \ {q} : query'[p] = query[p]
<1> DEFINE r == Asked(q)
<1>1. r \in QueryRecords
  BY DEF Asked, NoQuery, QueryRecords, RegistryInv, Typed, AtRegistry, AtAdapter
<1>2. query'[q] = r /\ \A p \in Queries \ {q} : query'[p] = query[p]
  BY DEF Ask, RegistryInv, Typed
<1>3. query' \in [Queries -> QueryRecords]
  BY <1>1 DEF Ask, RegistryInv, Typed
<1>4. pending' = IF r.at = "creating" THEN q ELSE pending
  BY DEF Ask
<1>5. UNCHANGED <<kind, registered, created, handle, opening, timer, open>>
  BY DEF Ask
<1>6. \/ /\ registered # 0 /\ r.at = "adapter" /\ r.on = registered /\ r.of = 0
      \/ /\ registered = 0 /\ pending = 0 /\ r.at = "creating" /\ r.on = 0 /\ r.of = q
      \/ /\ registered = 0 /\ pending # 0 /\ r.at = "inflight" /\ r.on = 0 /\ r.of = pending
  BY DEF Asked, CreatesOwn, NoQuery
<1> HIDE DEF r
<1>7. Typed'
  BY <1>3, <1>4, <1>5 DEF RegistryInv, Typed
<1>8. Creation'
  <2>1. CASE registered # 0 /\ r.at = "adapter" /\ r.on = registered /\ r.of = 0
    BY <1>2, <1>4, <1>5, <2>1 DEF RegistryInv, Creation, Typed, AtRegistry, AtAdapter
  <2>2. CASE registered = 0 /\ pending = 0 /\ r.at = "creating" /\ r.on = 0 /\ r.of = q
    <3>1. \A p \in Queries : query[p].at \notin AtRegistry
      BY <2>2, ZeroIsNothing DEF RegistryInv, Creation
    <3> QED BY <1>2, <1>4, <1>5, <2>2, <3>1 DEF RegistryInv, Creation, AtRegistry, AtAdapter
  <2>3. CASE registered = 0 /\ pending # 0 /\ r.at = "inflight" /\ r.on = 0 /\ r.of = pending
    BY <1>2, <1>4, <1>5, <2>3 DEF RegistryInv, Creation, Typed, AtRegistry, AtAdapter
  <2> QED BY <1>6, <2>1, <2>2, <2>3
<1> QED BY <1>2, <1>7, <1>8 DEF RegistryInv

(* While one caller creates, every other one waits for it or has nothing. *)
LEMMA OthersWait ==
    ASSUME RegistryInv, NEW q \in Queries, query[q].at = "creating"
    PROVE  /\ registered = 0 /\ pending = q
           /\ \A p \in Queries : query[p].of = q \/ (query[p].at = "idle" /\ query[p].of = 0)
<1>1. pending = q /\ q # 0
  BY ZeroIsNothing DEF RegistryInv, Creation
<1>2. registered = 0
  BY <1>1 DEF RegistryInv, Creation
<1>3. \A p \in Queries : query[p].at \in {"idle"} \cup AtRegistry \cup AtAdapter
  BY DEF RegistryInv, Typed, QueryRecords
<1> QED BY <1>1, <1>2, <1>3, ZeroIsNothing DEF RegistryInv, Creation, AtRegistry, AtAdapter

(* A creation that ends registers its adapter and lets those who wait go on with it. *)
LEMMA CreatedKeeps ==
    ASSUME RegistryInv, NEW q \in Queries, Created(q)
    PROVE  /\ RegistryInv' /\ registered = 0
           /\ \A p \in Queries : query'[p].at \in {"idle", "adapter"}
           /\ UNCHANGED <<kind, handle, opening, timer, open>>
<1> DEFINE n == created + 1
           r == [NoQuery EXCEPT !.at = "adapter", !.on = n]
<1>1. /\ n \in Adapters /\ registered' = n /\ pending' = 0 /\ created' = n
      /\ query' = [p \in Queries |-> IF query[p].of = q THEN r ELSE query[p]]
      /\ UNCHANGED <<kind, handle, opening, timer, open>>
  BY DEF Created, Settle
<1>2. /\ registered = 0 /\ pending = q
      /\ \A p \in Queries : query[p].of = q \/ (query[p].at = "idle" /\ query[p].of = 0)
  BY OthersWait DEF Created
<1>3. r \in QueryRecords /\ r.at = "adapter" /\ r.on = n /\ r.of = 0
  BY <1>1 DEF NoQuery, QueryRecords, AtRegistry, AtAdapter
<1> HIDE DEF r
<1>4. n \in Nat
  BY DEF RegistryInv, Typed
<1>5. query' \in [Queries -> QueryRecords]
  BY <1>1, <1>3 DEF RegistryInv, Typed
<1> HIDE DEF n
<1>6. Typed'
  BY <1>1, <1>4, <1>5 DEF RegistryInv, Typed
<1>7. \A p \in Queries : query'[p] = r \/ (query'[p] = query[p] /\ query[p].at = "idle" /\ query[p].of = 0)
  BY <1>1, <1>2
<1>8. Creation'
  BY <1>1, <1>3, <1>7 DEF RegistryInv, Creation, AtRegistry, AtAdapter
<1> QED BY <1>1, <1>2, <1>3, <1>6, <1>7, <1>8 DEF RegistryInv

(* A creation that fails leaves nobody waiting and nothing registered. *)
LEMMA CreationFailsKeeps ==
    ASSUME RegistryInv, NEW q \in Queries, CreationFails(q)
    PROVE  /\ RegistryInv'
           /\ \A p \in Queries : query'[p].at = "idle"
           /\ UNCHANGED <<kind, registered, handle, opening, timer, open>>
<1>1. /\ pending' = 0
      /\ query' = [p \in Queries |-> IF query[p].of = q THEN NoQuery ELSE query[p]]
      /\ UNCHANGED <<kind, registered, created, handle, opening, timer, open>>
  BY DEF CreationFails, Settle
<1>2. \A p \in Queries : query[p].of = q \/ (query[p].at = "idle" /\ query[p].of = 0)
  BY OthersWait DEF CreationFails
<1>3. query' \in [Queries -> QueryRecords]
  BY <1>1, NoQueryTyped DEF RegistryInv, Typed
<1>4. \A p \in Queries : \/ query'[p] = NoQuery
                         \/ (query'[p] = query[p] /\ query[p].at = "idle" /\ query[p].of = 0)
  BY <1>1, <1>2
<1>5. Typed'
  BY <1>1, <1>3 DEF RegistryInv, Typed
<1>6. Creation'
  BY <1>1, <1>4, NoQueryTyped DEF RegistryInv, Creation, AtRegistry, AtAdapter
<1> QED BY <1>1, <1>4, <1>5, <1>6, NoQueryTyped DEF RegistryInv

-----------------------------------------------------------------------------
(* The adapter *)

(* ensureConnected with a connection: goes on with it. *)
LEMMA SkipConnectDoes ==
    ASSUME RegistryInv, NEW q \in Queries, SkipConnect(q)
    PROVE  Goes(q, "connected", query[q].conn)
BY DEF SkipConnect, Goes, RegistryInv, Typed, QueryRecords, AtAdapter

(* ensureConnected where the connection is there at once. *)
LEMMA OpenAtOnceDoes ==
    ASSUME RegistryInv, NEW q \in Queries, NEW c \in Conns, OpenAtOnce(q, c)
    PROVE  \/ /\ kind \in Verified /\ query[q].at = "adapter"
              /\ Goes(q, "verifying", c)
              /\ UNCHANGED <<timer, open>>
           \/ /\ Goes(q, Afterwards(query[q].at), c)
              /\ Armed(query[q].on)
              /\ open' = open \cup {c}
<1>1. query[q] \in QueryRecords /\ Afterwards(query[q].at) \in AtAdapter
  BY DEF RegistryInv, Typed, Afterwards, AtAdapter
<1>2. CASE kind \in Verified /\ query[q].at = "adapter"
  <2>1. query' = [query EXCEPT ![q].at = "verifying", ![q].conn = c] /\ UNCHANGED <<timer, open>>
    BY <1>2 DEF OpenAtOnce
  <2>2. Goes(q, "verifying", c)
    BY <2>1 DEF Goes, RegistryInv, Typed, QueryRecords, AtAdapter
  <2> QED BY <1>2, <2>1, <2>2
<1>3. CASE ~(kind \in Verified /\ query[q].at = "adapter")
  <2>1. /\ query' = [query EXCEPT ![q].at = Afterwards(query[q].at), ![q].conn = c]
        /\ Armed(query[q].on)
        /\ open' = open \cup {c}
    BY <1>3 DEF OpenAtOnce
  <2>2. Goes(q, Afterwards(query[q].at), c)
    BY <1>1, <2>1 DEF Goes, RegistryInv, Typed, QueryRecords
  <2> QED BY <2>1, <2>2
<1> QED BY <1>2, <1>3

(* The ping of a new connection succeeds. *)
LEMMA VerifyDoes ==
    ASSUME RegistryInv, NEW q \in Queries, Verify(q)
    PROVE  Goes(q, "connected", 0)
BY DEF Verify, Goes, RegistryInv, Typed, QueryRecords, AtAdapter

(* The ping fails: clickhouse awaits close(), the others give up at once. *)
LEMMA VerifyFailsDoes ==
    ASSUME RegistryInv, NEW q \in Queries, VerifyFails(q)
    PROVE  \/ /\ kind = "clickhouse" /\ handle[query[q].on] # 0
              /\ Goes(q, "closing", handle[query[q].on])
              /\ open' = open \ {handle[query[q].on]}
           \/ /\ Ends(q)
              /\ open' \subseteq open
<1>1. query[q].at \in AtAdapter
  BY DEF VerifyFails, AtAdapter
<1>2. query[q].on \in Adapters
  BY <1>1 DEF RegistryInv, Creation
<1>3. CASE kind = "clickhouse" /\ handle[query[q].on] # 0
  <2>1. /\ query' = [query EXCEPT ![q] = [@ EXCEPT !.at = "closing", !.conn = handle[query[q].on]]]
        /\ open' = open \ {handle[query[q].on]}
    BY <1>3 DEF VerifyFails
  <2>2. Goes(q, "closing", handle[query[q].on])
    BY <1>2, <2>1 DEF Goes, RegistryInv, Typed, QueryRecords, AtAdapter
  <2> QED BY <1>3, <2>1, <2>2
<1>4. CASE ~(kind = "clickhouse" /\ handle[query[q].on] # 0)
  <2>1. /\ query' = [query EXCEPT ![q] = NoQuery]
        /\ open' \subseteq open
    BY <1>4 DEF VerifyFails
  <2>2. Ends(q)
    BY <2>1, NoQueryTyped DEF Ends, RegistryInv, Typed
  <2> QED BY <2>1, <2>2
<1> QED BY <1>3, <1>4

(* The end of a query, or of a failed ping. *)
LEMMA ClearHandleDoes ==
    ASSUME RegistryInv, NEW q \in Queries, ClearHandle(q) \/ Finish(q)
    PROVE  Ends(q)
BY NoQueryTyped DEF ClearHandle, Finish, Ends, RegistryInv, Typed

(* ensureConnected where the connection has to be awaited. *)
LEMMA OpenAwaitingDoes ==
    ASSUME RegistryInv, NEW q \in Queries, NEW c \in Conns, OpenAwaiting(q, c)
    PROVE  \E at \in {"opening", "reopening"} : Goes(q, at, c)
<1>1. PICK at \in {"opening", "reopening"} :
        query' = [query EXCEPT ![q] = [@ EXCEPT !.at = at, !.conn = c]]
  BY DEF OpenAwaiting
<1>2. Goes(q, at, c)
  BY <1>1 DEF Goes, RegistryInv, Typed, QueryRecords, AtAdapter
<1> QED BY <1>2

(* Everyone who waits for the opening goes on or ends. *)
LEMMA OpenedDoes ==
    ASSUME RegistryInv, NEW q \in Queries, Opened(q) \/ OpenFails(q)
    PROVE  /\ query' \in [Queries -> QueryRecords]
           /\ \A p \in Queries : Continues(p)
           /\ \A p \in Queries : p \notin Waiting(q) => query'[p] = query[p]
           /\ \A p \in Waiting(q) : query'[p].at \in {"idle", "connected", "running"}
<1>1. ASSUME NEW p \in Queries
      PROVE  \/ query'[p] = query[p] /\ p \notin Waiting(q)
             \/ query'[p] = NoQuery /\ p \in Waiting(q)
             \/ query'[p] = [query[p] EXCEPT !.at = "connected", !.conn = 0] /\ p \in Waiting(q)
             \/ query'[p] = [query[p] EXCEPT !.at = "running"] /\ p \in Waiting(q)
  BY DEF Opened, OpenFails
<1>2. \A p \in Waiting(q) : p \in Queries /\ query[p].at \in AtAdapter
  BY DEF Waiting, AtAdapter
<1>3. ASSUME NEW p \in Queries
      PROVE  /\ query'[p] \in QueryRecords /\ Continues(p)
             /\ p \notin Waiting(q) => query'[p] = query[p]
             /\ p \in Waiting(q) => query'[p].at \in {"idle", "connected", "running"}
  <2>1. query[p] \in QueryRecords
    BY DEF RegistryInv, Typed
  <2>2. CASE query'[p] = query[p] /\ p \notin Waiting(q)
    BY <2>1, <2>2 DEF Continues
  <2>3. CASE query'[p] = NoQuery /\ p \in Waiting(q)
    BY <1>2, <2>3, NoQueryTyped DEF Continues
  <2>4. CASE query'[p] = [query[p] EXCEPT !.at = "connected", !.conn = 0] /\ p \in Waiting(q)
    BY <1>2, <2>1, <2>4 DEF Continues, QueryRecords, AtAdapter
  <2>5. CASE query'[p] = [query[p] EXCEPT !.at = "running"] /\ p \in Waiting(q)
    BY <1>2, <2>1, <2>5 DEF Continues, QueryRecords, AtAdapter
  <2> QED BY <1>1, <2>2, <2>3, <2>4, <2>5
<1>4. query' = [p \in Queries |-> query'[p]]
  BY DEF Opened, OpenFails
<1>5. \A p \in Waiting(q) : p \in Queries
  BY <1>2
<1> QED BY <1>3, <1>4, <1>5

(* The statement runs on the handle as it is then. *)
LEMMA RunDoes ==
    ASSUME RegistryInv, NEW q \in Queries, Run(q)
    PROVE  Goes(q, "running", handle[query[q].on])
<1>1. query[q].on \in Adapters
  BY DEF Run, RegistryInv, Creation, AtAdapter
<1> QED BY <1>1 DEF Run, Goes, RegistryInv, Typed, QueryRecords, AtAdapter

-----------------------------------------------------------------------------
(* One adapter *)

\* A step of q at its adapter, or of an adapter's timer.
AdapterStep(q) ==
    \/ SkipConnect(q)
    \/ \E c \in Conns : OpenAtOnce(q, c) \/ OpenAwaiting(q, c)
    \/ Verify(q) \/ VerifyFails(q) \/ ClearHandle(q) \/ Opened(q) \/ OpenFails(q)
    \/ Run(q) \/ Finish(q)

(* Whatever a query does at the adapter, each query goes on from where it was. *)
LEMMA StepContinues ==
    ASSUME RegistryInv, NEW q \in Queries, AdapterStep(q)
    PROVE  query' \in [Queries -> QueryRecords] /\ \A p \in Queries : Continues(p)
<1>1. ASSUME query[q].at \in AtAdapter, Ends(q) \/ \E at \in AtAdapter : \E conn : Goes(q, at, conn)
      PROVE  query' \in [Queries -> QueryRecords] /\ \A p \in Queries : Continues(p)
  BY <1>1, GoesContinues DEF Ends, Goes
<1>2. CASE SkipConnect(q)
  BY <1>1, <1>2, SkipConnectDoes DEF SkipConnect, AtAdapter
<1>3. ASSUME NEW c \in Conns, OpenAtOnce(q, c)
      PROVE  query' \in [Queries -> QueryRecords] /\ \A p \in Queries : Continues(p)
  <2>1. query[q].at \in AtAdapter
    BY <1>3 DEF OpenAtOnce, Needs, AtAdapter
  <2>2. \E at \in AtAdapter : \E conn : Goes(q, at, conn)
    BY <1>3, OpenAtOnceDoes DEF Afterwards, AtAdapter
  <2> QED BY <1>1, <2>1, <2>2
<1>4. ASSUME NEW c \in Conns, OpenAwaiting(q, c)
      PROVE  query' \in [Queries -> QueryRecords] /\ \A p \in Queries : Continues(p)
  <2>1. query[q].at \in AtAdapter
    BY <1>4 DEF OpenAwaiting, Needs, AtAdapter
  <2>2. \E at \in AtAdapter : \E conn : Goes(q, at, conn)
    BY <1>4, OpenAwaitingDoes DEF AtAdapter
  <2> QED BY <1>1, <2>1, <2>2
<1>5. CASE Verify(q)
  BY <1>1, <1>5, VerifyDoes DEF Verify, AtAdapter
<1>6. CASE VerifyFails(q)
  BY <1>1, <1>6, VerifyFailsDoes DEF VerifyFails, AtAdapter
<1>7. CASE ClearHandle(q) \/ Finish(q)
  BY <1>1, <1>7, ClearHandleDoes DEF ClearHandle, Finish, AtAdapter
<1>8. CASE Opened(q) \/ OpenFails(q)
  BY <1>8, OpenedDoes
<1>9. CASE Run(q)
  BY <1>1, <1>9, RunDoes DEF Run, AtAdapter
<1> QED BY <1>2, <1>3, <1>4, <1>5, <1>6, <1>7, <1>8, <1>9 DEF AdapterStep

(* A caller at an adapter is at the one that is registered. *)
LEMMA StepIsRegistered ==
    ASSUME RegistryInv, NEW q \in Queries, AdapterStep(q)
    PROVE  query[q].at \in AtAdapter /\ query[q].on = registered /\ registered \in Adapters
<1>1. query[q].at \in AtAdapter
  BY DEF AdapterStep, SkipConnect, OpenAtOnce, OpenAwaiting, Needs, Verify, VerifyFails, ClearHandle,
         Opened, OpenFails, Run, Finish, AtAdapter
<1> QED BY <1>1 DEF RegistryInv, Creation

(* A step at the adapter keeps the types, and the registry as it is. *)
LEMMA StepTyped ==
    ASSUME RegistryInv, NEW q \in Queries, AdapterStep(q)
    PROVE  /\ UNCHANGED Registry
           /\ handle' \in [Adapters -> Conns \cup {0}]
           /\ opening' \in [Adapters -> Conns \cup {0}]
           /\ timer' \in [Adapters -> BOOLEAN]
<1>1. /\ handle \in [Adapters -> Conns \cup {0}]
      /\ opening \in [Adapters -> Conns \cup {0}]
      /\ timer \in [Adapters -> BOOLEAN]
      /\ query[q].conn \in Conns \cup {0}
  BY DEF RegistryInv, Typed, QueryRecords
<1>2. CASE SkipConnect(q)
  BY <1>1, <1>2 DEF SkipConnect
<1>3. ASSUME NEW c \in Conns, OpenAtOnce(q, c)
      PROVE  /\ UNCHANGED <<Registry, opening>>
             /\ handle' \in [Adapters -> Conns \cup {0}]
             /\ timer' \in [Adapters -> BOOLEAN]
  <2>1. UNCHANGED timer \/ Armed(query[q].on)
    BY <1>3, OpenAtOnceDoes
  <2> QED BY <1>1, <1>3, <2>1 DEF OpenAtOnce, Armed
<1>4. ASSUME NEW c \in Conns, OpenAwaiting(q, c)
      PROVE  UNCHANGED <<Registry, handle, timer>> /\ opening' \in [Adapters -> Conns \cup {0}]
  BY <1>1, <1>4 DEF OpenAwaiting
<1>5. CASE Verify(q) \/ Run(q)
  BY <1>1, <1>5 DEF Verify, Run, Armed
<1>6. CASE VerifyFails(q) \/ Finish(q)
  BY <1>1, <1>6 DEF VerifyFails, Finish
<1>7. CASE ClearHandle(q)
  BY <1>1, <1>7 DEF ClearHandle
<1>8. CASE Opened(q) \/ OpenFails(q)
  BY <1>1, <1>8 DEF Opened, OpenFails
<1> QED BY <1>1, <1>2, <1>3, <1>4, <1>5, <1>6, <1>7, <1>8 DEF AdapterStep

(* A step at the adapter keeps the invariant of the registry. *)
LEMMA StepKeepsRegistry ==
    ASSUME RegistryInv, NEW q \in Queries, AdapterStep(q)
    PROVE  RegistryInv'
<1>1. UNCHANGED <<kind, registered, created, pending>>
  BY StepTyped DEF Registry
<1>2. Creation'
  BY <1>1, StepContinues, ContinuesKeeps DEF RegistryInv
<1>3. Typed'
  BY <1>1, StepContinues, StepTyped DEF RegistryInv, Typed
<1> QED BY <1>2, <1>3 DEF RegistryInv

(* So does an idle timeout. *)
LEMMA TimeoutKeepsRegistry ==
    ASSUME RegistryInv, NEW a \in Adapters, IdleTimeout(a)
    PROVE  RegistryInv'
<1>1. UNCHANGED <<kind, registered, created, pending, query, opening>>
  BY DEF IdleTimeout, Registry
<1>2. Creation'
  BY <1>1 DEF RegistryInv, Creation
<1>3. Typed'
  BY <1>1 DEF RegistryInv, Typed, IdleTimeout
<1> QED BY <1>2, <1>3 DEF RegistryInv

(* The steps, grouped by whether they are at the registry or at the adapter. *)
LEMMA NextCases ==
    ASSUME [Next]_vars
    PROVE  \/ \E q \in Queries : Ask(q) \/ Created(q) \/ CreationFails(q) \/ AdapterStep(q)
           \/ \E a \in Adapters : IdleTimeout(a)
           \/ UNCHANGED vars
BY DEF Next, AdapterStep

(* The invariant of the registry holds for all kinds of adapters and whatever fails. *)
THEOREM Invariance == Spec => []RegistryInv
<1>1. RegistryInv /\ [Next]_vars => RegistryInv'
  <2> SUFFICES ASSUME RegistryInv, [Next]_vars PROVE RegistryInv'
    OBVIOUS
  <2>1. ASSUME NEW q \in Queries, Ask(q) PROVE RegistryInv'
    BY <2>1, AskKeeps
  <2>2. ASSUME NEW q \in Queries, Created(q) PROVE RegistryInv'
    BY <2>2, CreatedKeeps
  <2>3. ASSUME NEW q \in Queries, CreationFails(q) PROVE RegistryInv'
    BY <2>3, CreationFailsKeeps
  <2>4. ASSUME NEW q \in Queries, AdapterStep(q) PROVE RegistryInv'
    BY <2>4, StepKeepsRegistry
  <2>5. ASSUME NEW a \in Adapters, IdleTimeout(a) PROVE RegistryInv'
    BY <2>5, TimeoutKeepsRegistry
  <2>6. CASE UNCHANGED vars
    BY <2>6 DEF vars, RegistryInv, Typed, Creation
  <2> QED BY <2>1, <2>2, <2>3, <2>4, <2>5, <2>6, NextCases
<1> QED BY <1>1, InitRegistry, PTL DEF Spec

(* No two adapters for a database: callers that come while one is being created get the
   one that is then registered (registry.ts).                                        *)
THEOREM NoSecondAdapter == Spec => []OneAdapter
<1>1. RegistryInv => OneAdapter
  <2> SUFFICES ASSUME RegistryInv, NEW q \in Queries PROVE query[q].on \in {0, registered}
    BY DEF OneAdapter
  <2>1. query[q].at \in {"idle"} \cup AtRegistry \cup AtAdapter
    BY DEF RegistryInv, Typed, QueryRecords
  <2> QED BY <2>1 DEF RegistryInv, Creation
<1> QED BY <1>1, Invariance, PTL

-----------------------------------------------------------------------------
(* The connection *)

Trying == {"verifying", "closing"}
Opening == {"opening", "reopening"}

(* What an adapter that is not registered has. *)
Unused == \A a \in Adapters : a # registered => handle[a] = 0 /\ opening[a] = 0

(* An open connection is the one that the adapter holds; the idle timer will close it. *)
Held ==
    /\ open \subseteq Conns
    /\ \A c \in open : registered \in Adapters /\ handle[registered] = c /\ timer[registered]

(* One caller at most tries out the connection or closes it after it failed; until the
   handle is cleared nobody opens another one.                                       *)
TriedOnce ==
    \A q \in Queries : query[q].at \in Trying =>
        /\ kind \in Verified
        /\ query[q].conn = handle[registered] /\ handle[registered] # 0
        /\ query[q].at = "closing" => open = {}
        /\ \A p \in Queries \ {q} : query[p].at \notin Trying

(* Callers that await an opening await the same one, and there is no handle yet. *)
OpenedOnce ==
    \A q \in Queries : query[q].at \in Opening =>
        /\ kind \in Shared
        /\ query[q].conn = opening[registered] /\ opening[registered] # 0
        /\ handle[registered] = 0

HandleInv == Unused /\ Held /\ TriedOnce /\ OpenedOnce

IInv == RegistryInv /\ HandleInv

\* The adapters whose callers share their handle, and no timer during an opening.
Assumed == Kinds \cap Awaited = {} /\ "slowOpens" \notin Env

(* At first no connection is open. *)
LEMMA InitHandle == Init => HandleInv
BY NoQueryTyped DEF Init, HandleInv, Unused, Held, TriedOnce, OpenedOnce, Trying, Opening

(* A creation touches no connection, and nobody tries or opens one meanwhile. *)
LEMMA RegistryKeepsHandle ==
    ASSUME IInv, NEW q \in Queries, Ask(q) \/ Created(q) \/ CreationFails(q)
    PROVE  HandleInv'
<1>1. UNCHANGED <<kind, handle, opening, timer, open>>
  BY DEF Ask, Created, CreationFails
<1>2. CASE Ask(q)
  <2>1. registered' = registered /\ \A p \in Queries \ {q} : query'[p] = query[p]
    BY <1>2, AskKeeps DEF Ask, IInv
  <2>2. query'[q].at \notin Trying \cup Opening
    <3>1. query'[q] = Asked(q)
      BY <1>2 DEF Ask, IInv, RegistryInv, Typed
    <3> QED BY <3>1 DEF Asked, NoQuery, Trying, Opening
  <2>3. Unused' /\ Held'
    BY <1>1, <2>1 DEF IInv, HandleInv, Unused, Held
  <2>4. TriedOnce' /\ OpenedOnce'
    BY <1>1, <2>1, <2>2 DEF IInv, HandleInv, TriedOnce, OpenedOnce
  <2> QED BY <2>3, <2>4 DEF HandleInv
<1>3. CASE Created(q)
  <2>1. registered = 0 /\ \A p \in Queries : query'[p].at \in {"idle", "adapter"}
    BY <1>3, CreatedKeeps DEF IInv
  <2>2. Unused' /\ Held'
    BY <1>1, <2>1, ZeroIsNothing DEF IInv, HandleInv, Unused, Held
  <2>3. TriedOnce' /\ OpenedOnce'
    BY <2>1 DEF TriedOnce, OpenedOnce, Trying, Opening
  <2> QED BY <2>2, <2>3 DEF HandleInv
<1>4. CASE CreationFails(q)
  <2>1. registered' = registered /\ \A p \in Queries : query'[p].at = "idle"
    BY <1>4, CreationFailsKeeps DEF IInv
  <2>2. Unused' /\ Held'
    BY <1>1, <2>1 DEF IInv, HandleInv, Unused, Held
  <2>3. TriedOnce' /\ OpenedOnce'
    BY <2>1 DEF TriedOnce, OpenedOnce, Trying, Opening
  <2> QED BY <2>2, <2>3 DEF HandleInv
<1> QED BY <1>2, <1>3, <1>4

\* The query of q is where it tries out and awaits no connection.
Leaves(q) ==
    /\ query'[q].at \notin Trying \cup Opening
    /\ \A p \in Queries \ {q} : query'[p] = query[p]

(* Where the handle and the openings stay, and no connection is opened. *)
LEMMA LeavesKeeps ==
    ASSUME HandleInv, NEW q \in Queries, Leaves(q), UNCHANGED <<kind, registered, handle, opening, timer>>,
           open' \subseteq open
    PROVE  HandleInv'
<1>1. Unused' /\ Held'
  BY DEF HandleInv, Unused, Held
<1>2. TriedOnce' /\ OpenedOnce'
  BY DEF HandleInv, TriedOnce, OpenedOnce, Leaves
<1> QED BY <1>1, <1>2 DEF HandleInv

(* Without a handle there is no open connection, and nobody tries one out. *)
LEMMA NothingHeld ==
    ASSUME IInv, registered \in Adapters, handle[registered] = 0
    PROVE  open = {} /\ \A p \in Queries : query[p].at \notin Trying
BY ZeroIsNothing DEF IInv, HandleInv, Held, TriedOnce

(* Where there is one, nobody awaits an opening. *)
LEMMA NothingOpening ==
    ASSUME IInv, kind \notin Shared \/ (registered \in Adapters /\ handle[registered] # 0)
    PROVE  \A p \in Queries : query[p].at \notin Opening
BY DEF IInv, HandleInv, OpenedOnce

(* How the sets of kinds lie to each other. *)
LEMMA KindsApart == Shared \cap Verified = {} /\ Shared \cap Immediate = {} /\ "snowflake" \notin Shared
BY DEF Shared, Verified, Immediate

(* A connection that is there at once is the handle, or is about to be verified. *)
LEMMA OpenAtOnceKeeps ==
    ASSUME IInv, NEW q \in Queries, NEW c \in Conns, OpenAtOnce(q, c)
    PROVE  HandleInv'
<1> DEFINE a == query[q].on
<1>1. a = registered /\ registered \in Adapters /\ query[q].at \in AtAdapter
  BY StepIsRegistered DEF IInv, AdapterStep
<1>2. /\ kind \in Immediate \cup Verified
      /\ handle[a] = 0
      /\ handle' = [handle EXCEPT ![a] = c]
      /\ UNCHANGED <<kind, registered, opening>>
  BY DEF OpenAtOnce, Needs, Registry
<1>6. \A p \in Queries : query[p].at \notin Opening
  BY <1>2, NothingOpening, KindsApart
<1>7. \/ /\ kind \in Verified
         /\ Goes(q, "verifying", c)
         /\ UNCHANGED <<timer, open>>
      \/ /\ Goes(q, Afterwards(query[q].at), c)
         /\ Armed(a)
         /\ open' = open \cup {c}
  BY OpenAtOnceDoes DEF IInv
<1> HIDE DEF a
<1>3. open = {} /\ \A p \in Queries : query[p].at \notin Trying
  BY <1>1, <1>2, NothingHeld
<1>4. /\ handle'[registered] = c /\ c # 0
      /\ \A b \in Adapters : b # registered => handle'[b] = handle[b]
  BY <1>1, <1>2, ZeroIsNothing DEF IInv, RegistryInv, Typed
<1>5. Unused'
  BY <1>2, <1>4 DEF IInv, HandleInv, Unused
<1>8. CASE kind \in Verified /\ Goes(q, "verifying", c) /\ UNCHANGED <<timer, open>>
  <2>1. Held'
    BY <1>3, <1>8 DEF Held
  <2>2. TriedOnce' /\ OpenedOnce'
    BY <1>2, <1>3, <1>4, <1>6, <1>8 DEF TriedOnce, OpenedOnce, Goes, Trying, Opening
  <2> QED BY <1>5, <2>1, <2>2 DEF HandleInv
<1>9. CASE Goes(q, Afterwards(query[q].at), c) /\ Armed(a) /\ open' = open \cup {c}
  <2>1. timer'[registered]
    BY <1>1, <1>9 DEF Armed, IInv, RegistryInv, Typed
  <2>2. Held'
    BY <1>1, <1>2, <1>3, <1>4, <1>9, <2>1 DEF Held
  <2>3. TriedOnce' /\ OpenedOnce'
    BY <1>3, <1>6, <1>9 DEF TriedOnce, OpenedOnce, Goes, Afterwards, Trying, Opening
  <2> QED BY <1>5, <2>2, <2>3 DEF HandleInv
<1> QED BY <1>7, <1>8, <1>9

(* A query runs on the connection that is held, unless it is being closed. *)
LEMMA UsesKeeps ==
    ASSUME IInv, NEW q \in Queries, Verify(q) \/ Run(q)
    PROVE  HandleInv'
<1>1. query[q].on = registered /\ registered \in Adapters
  BY StepIsRegistered DEF IInv, AdapterStep
<1>2. PICK c : /\ open' = open \cup Usable(registered, c)
               /\ timer' = [timer EXCEPT ![registered] = TRUE]
               /\ UNCHANGED <<kind, registered, handle, opening>>
  BY <1>1 DEF Verify, Run, Armed, Registry
<1>3. handle[registered] # 0 /\ handle[registered] \in Conns
  <2>1. handle[registered] \in Conns \cup {0}
    BY <1>1 DEF IInv, RegistryInv, Typed
  <2> QED BY <1>1, <2>1 DEF Verify, Run, IInv, HandleInv, TriedOnce, Trying
<1>4. Leaves(q)
  BY VerifyDoes, RunDoes DEF IInv, Goes, Leaves, Trying, Opening
<1>5. Usable(registered, c) \subseteq {handle[registered]}
  BY DEF Usable
<1>6. Unused' /\ Held'
  <2>1. timer'[registered]
    BY <1>1, <1>2 DEF IInv, RegistryInv, Typed
  <2> QED BY <1>1, <1>2, <1>3, <1>5, <2>1 DEF IInv, HandleInv, Unused, Held
<1>7. ASSUME NEW p \in Queries, query[p].at = "closing" PROVE open' = {}
  <2>1. query[p].conn = handle[registered] /\ open = {}
    BY <1>7 DEF IInv, HandleInv, TriedOnce, Trying
  <2>2. Usable(registered, c) = {}
    BY <1>7, <2>1 DEF Usable
  <2> QED BY <1>2, <2>1, <2>2
<1>8. TriedOnce' /\ OpenedOnce'
  BY <1>2, <1>4, <1>7 DEF IInv, HandleInv, TriedOnce, OpenedOnce, Leaves
<1> QED BY <1>6, <1>8 DEF HandleInv

(* A connection whose ping failed is closed by the query that opened it. *)
LEMMA VerifyFailsKeeps ==
    ASSUME IInv, NEW q \in Queries, VerifyFails(q)
    PROVE  HandleInv'
<1>1. query[q].on = registered /\ registered \in Adapters
  BY StepIsRegistered DEF IInv, AdapterStep
<1>2. query[q].at = "verifying" /\ UNCHANGED <<kind, registered, handle, opening, timer>>
  BY DEF VerifyFails, Registry
<1>3. CASE /\ handle[registered] # 0
           /\ Goes(q, "closing", handle[registered])
           /\ open' = open \ {handle[registered]}
  <2>1. open' = {}
    BY <1>3 DEF IInv, HandleInv, Held
  <2>2. Unused' /\ Held'
    BY <1>2, <2>1 DEF IInv, HandleInv, Unused, Held
  <2>3. TriedOnce' /\ OpenedOnce'
    BY <1>2, <1>3, <2>1 DEF IInv, HandleInv, TriedOnce, OpenedOnce, Goes, Trying, Opening
  <2> QED BY <2>2, <2>3 DEF HandleInv
<1>4. CASE Ends(q) /\ open' \subseteq open
  <2>1. Leaves(q)
    BY <1>4, NoQueryTyped DEF Ends, Leaves, Trying, Opening
  <2> QED BY <1>2, <1>4, <2>1, LeavesKeeps DEF IInv
<1> QED BY <1>1, <1>3, <1>4, VerifyFailsDoes DEF IInv

(* The variable is cleared when its connection is closed already. *)
LEMMA ClearHandleKeeps ==
    ASSUME IInv, NEW q \in Queries, ClearHandle(q)
    PROVE  HandleInv'
<1>1. query[q].on = registered /\ registered \in Adapters
  BY StepIsRegistered DEF IInv, AdapterStep
<1>2. /\ query[q].at = "closing" /\ UNCHANGED <<kind, registered, opening, timer, open>>
      /\ handle' = [handle EXCEPT ![registered] = 0]
  BY <1>1 DEF ClearHandle, Registry
<1>3. /\ open = {} /\ kind \in Verified
      /\ \A p \in Queries \ {q} : query[p].at \notin Trying
  BY <1>2 DEF IInv, HandleInv, TriedOnce, Trying
<1>4. \A p \in Queries : query[p].at \notin Opening
  BY <1>3, NothingOpening, KindsApart
<1>5. Leaves(q)
  BY ClearHandleDoes, NoQueryTyped DEF IInv, Ends, Leaves, Trying, Opening
<1>6. Unused' /\ Held'
  BY <1>1, <1>2, <1>3 DEF IInv, RegistryInv, Typed, HandleInv, Unused, Held
<1>7. TriedOnce' /\ OpenedOnce'
  BY <1>3, <1>4, <1>5 DEF TriedOnce, OpenedOnce, Leaves
<1> QED BY <1>6, <1>7 DEF HandleInv

(* Of these databases only duckdb is left, whose callers share one opening. *)
LEMMA OpenAwaitingKeeps ==
    ASSUME Assumed, IInv, NEW q \in Queries, NEW c \in Conns, OpenAwaiting(q, c)
    PROVE  HandleInv'
<1>1. query[q].on = registered /\ registered \in Adapters
  BY StepIsRegistered DEF IInv, AdapterStep
<1>2. kind \in Shared
  BY DEF OpenAwaiting, IInv, RegistryInv, Typed, Assumed
<1>3. /\ handle[registered] = 0
      /\ opening[registered] # 0 => c = opening[registered]
      /\ opening' = [opening EXCEPT ![registered] = c]
      /\ UNCHANGED <<kind, registered, handle, timer, open>>
  BY <1>1, <1>2 DEF OpenAwaiting, Needs, Joins, Registry
<1>4. PICK at \in Opening : Goes(q, at, c)
  BY OpenAwaitingDoes DEF IInv, Opening
<1>5. open = {} /\ \A p \in Queries : query[p].at \notin Trying
  BY <1>1, <1>3, NothingHeld
<1>6. opening'[registered] = c /\ c # 0 /\ \A a \in Adapters : a # registered => opening'[a] = opening[a]
  BY <1>1, <1>3, ZeroIsNothing DEF IInv, RegistryInv, Typed
<1>7. Unused' /\ Held'
  BY <1>3, <1>6 DEF IInv, HandleInv, Unused, Held
<1>8. TriedOnce'
  BY <1>4, <1>5 DEF TriedOnce, Goes, Trying, Opening
<1>9. OpenedOnce'
  BY <1>2, <1>3, <1>4, <1>6 DEF IInv, HandleInv, OpenedOnce, Goes
<1> QED BY <1>7, <1>8, <1>9 DEF HandleInv

(* The opening ends: its connection becomes the handle, or there is none. *)
LEMMA OpenedKeeps ==
    ASSUME IInv, NEW q \in Queries, Opened(q) \/ OpenFails(q)
    PROVE  HandleInv'
<1>1. query[q].on = registered /\ registered \in Adapters
  BY StepIsRegistered DEF IInv, AdapterStep
<1>2. query[q].at \in Opening
  BY DEF Opened, OpenFails, Opening
<1>3. /\ kind \in Shared /\ query[q].conn = opening[registered] /\ opening[registered] # 0
      /\ handle[registered] = 0
  BY <1>2 DEF IInv, HandleInv, OpenedOnce
<1>4. open = {} /\ \A p \in Queries : query[p].at \notin Trying
  BY <1>1, <1>3, NothingHeld
<1>5. UNCHANGED <<kind, registered>> /\ opening' = [opening EXCEPT ![registered] = 0]
  BY <1>1 DEF Opened, OpenFails, Registry
<1>6. \A p \in Queries : query[p].at \in Opening => p \in Waiting(q)
  BY <1>3 DEF IInv, HandleInv, OpenedOnce, Waiting, Opening
<1>7. \A p \in Queries : query'[p].at \notin Trying \cup Opening
  <2> SUFFICES ASSUME NEW p \in Queries PROVE query'[p].at \notin Trying \cup Opening
    OBVIOUS
  <2>1. CASE p \in Waiting(q)
    BY <2>1, OpenedDoes DEF IInv, Trying, Opening
  <2>2. CASE p \notin Waiting(q)
    BY <1>4, <1>6, <2>2, OpenedDoes DEF IInv
  <2> QED BY <2>1, <2>2
<1>8. TriedOnce' /\ OpenedOnce'
  BY <1>7 DEF TriedOnce, OpenedOnce
<1>9. CASE Opened(q)
  <2>1. /\ handle' = [handle EXCEPT ![registered] = opening[registered]]
        /\ open' = {opening[registered]}
        /\ timer' = [timer EXCEPT ![registered] = TRUE]
    <3>1. kind # "snowflake"
      BY <1>3, KindsApart
    <3> QED BY <1>1, <1>3, <1>4, <1>9, <3>1 DEF Opened
  <2>2. opening[registered] \in Conns
    BY <1>1, <1>3 DEF IInv, RegistryInv, Typed
  <2>3. handle'[registered] = opening[registered] /\ timer'[registered]
    BY <1>1, <2>1 DEF IInv, RegistryInv, Typed
  <2>4. Unused'
    BY <1>5, <2>1 DEF IInv, RegistryInv, Typed, HandleInv, Unused
  <2>5. Held'
    BY <1>1, <1>5, <2>1, <2>2, <2>3 DEF Held
  <2> QED BY <1>8, <2>4, <2>5 DEF HandleInv
<1>10. CASE OpenFails(q)
  <2>1. UNCHANGED <<handle, timer, open>>
    BY <1>10 DEF OpenFails
  <2>2. Unused' /\ Held'
    BY <1>4, <1>5, <2>1 DEF IInv, RegistryInv, Typed, HandleInv, Unused, Held
  <2> QED BY <1>8, <2>2 DEF HandleInv
<1> QED BY <1>9, <1>10

(* Nobody is with an adapter whose timer fires. *)
LEMMA TimeoutKeepsHandle ==
    ASSUME Assumed, IInv, NEW a \in Adapters, IdleTimeout(a)
    PROVE  HandleInv'
<1>1. /\ timer' = [timer EXCEPT ![a] = FALSE]
      /\ open' = open \ {handle[a]}
      /\ handle' = [handle EXCEPT ![a] = 0]
      /\ UNCHANGED <<kind, registered, query, opening>>
  BY DEF IdleTimeout, Registry
<1>2. Unused'
  BY <1>1 DEF IInv, RegistryInv, Typed, HandleInv, Unused
<1>3. CASE a = registered
  <2>1. open' = {}
    BY <1>1, <1>3 DEF IInv, HandleInv, Held
  <2>2. \A q \in Queries : query[q].at \notin AtAdapter
    BY <1>3 DEF IdleTimeout, Assumed, IInv, RegistryInv, Creation, AtAdapter
  <2>3. TriedOnce' /\ OpenedOnce'
    BY <1>1, <2>2 DEF TriedOnce, OpenedOnce, Trying, Opening, AtAdapter
  <2> QED BY <1>2, <2>1, <2>3 DEF HandleInv, Held
<1>4. CASE a # registered
  <2>1. registered \in Adapters =>
            handle'[registered] = handle[registered] /\ timer'[registered] = timer[registered]
    BY <1>1, <1>4 DEF IInv, RegistryInv, Typed
  <2>2. Held'
    BY <1>1, <2>1 DEF IInv, HandleInv, Held
  <2>3. \A q \in Queries : query[q].at \in Trying \cup Opening => registered \in Adapters
    BY DEF IInv, RegistryInv, Creation, Trying, Opening, AtAdapter
  <2>4. open' \subseteq open
    BY <1>1
  <2>5. TriedOnce' /\ OpenedOnce'
    BY <1>1, <2>1, <2>3, <2>4 DEF IInv, HandleInv, TriedOnce, OpenedOnce
  <2> QED BY <1>2, <2>2, <2>5 DEF HandleInv
<1> QED BY <1>3, <1>4

(* Every step at the adapter keeps the invariant of the handle. *)
LEMMA StepKeepsHandle ==
    ASSUME Assumed, IInv, NEW q \in Queries, AdapterStep(q)
    PROVE  HandleInv'
<1>1. CASE SkipConnect(q)
  <2>1. Leaves(q)
    BY <1>1, SkipConnectDoes DEF IInv, Goes, Leaves, Trying, Opening
  <2> QED BY <1>1, <2>1, LeavesKeeps DEF IInv, SkipConnect, Registry
<1>2. CASE Finish(q)
  <2>1. Leaves(q)
    BY <1>2, ClearHandleDoes, NoQueryTyped DEF IInv, Ends, Leaves, Trying, Opening
  <2> QED BY <1>2, <2>1, LeavesKeeps DEF IInv, Finish, Registry
<1> QED BY <1>1, <1>2, OpenAtOnceKeeps, OpenAwaitingKeeps, UsesKeeps, VerifyFailsKeeps,
           ClearHandleKeeps, OpenedKeeps DEF AdapterStep

(* No connection is left open and forgotten: the one that is open is the adapter's, and
   the timer that closes it is armed, whatever fails while others use the adapter. For
   mssql and snowflake this is false (README, section 5), and for a timer that fires
   while a connection is being opened.                                               *)
THEOREM ConnectionsTornDown == ASSUME Assumed PROVE Spec => []TornDown
<1>1. Init => IInv
  BY InitRegistry, InitHandle DEF IInv
<1>2. IInv /\ [Next]_vars => IInv'
  <2> SUFFICES ASSUME IInv, [Next]_vars PROVE IInv'
    OBVIOUS
  <2>1. ASSUME NEW q \in Queries, Ask(q) PROVE IInv'
    BY <2>1, AskKeeps, RegistryKeepsHandle DEF IInv
  <2>2. ASSUME NEW q \in Queries, Created(q) PROVE IInv'
    BY <2>2, CreatedKeeps, RegistryKeepsHandle DEF IInv
  <2>3. ASSUME NEW q \in Queries, CreationFails(q) PROVE IInv'
    BY <2>3, CreationFailsKeeps, RegistryKeepsHandle DEF IInv
  <2>4. ASSUME NEW q \in Queries, AdapterStep(q) PROVE IInv'
    BY <2>4, StepKeepsRegistry, StepKeepsHandle DEF IInv
  <2>5. ASSUME NEW a \in Adapters, IdleTimeout(a) PROVE IInv'
    BY <2>5, TimeoutKeepsRegistry, TimeoutKeepsHandle DEF IInv
  <2>6. CASE UNCHANGED vars
    BY <2>6 DEF vars, IInv, RegistryInv, Typed, Creation, HandleInv, Unused, Held, TriedOnce, OpenedOnce
  <2> QED BY <2>1, <2>2, <2>3, <2>4, <2>5, <2>6, NextCases
<1>3. IInv => TornDown
  BY DEF IInv, HandleInv, Held, TornDown
<1> QED BY <1>1, <1>2, <1>3, PTL DEF Spec
=============================================================================
