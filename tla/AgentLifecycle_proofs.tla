----------------------- MODULE AgentLifecycle_proofs -----------------------
(***************************************************************************)
(* Whatever the order in which agents are spawned, terminated, resurrected *)
(* and restored, however initialize() ends, and whenever the server stops: *)
(* an agent has one host, an archived agent has none, and an active agent  *)
(* without one is not forgotten. For every set of agents, projects, hosts  *)
(* and reminders.                                                          *)
(***************************************************************************)
EXTENDS AgentLifecycle, FiniteSetTheorems, TLAPS

\* a host that exists for its agent: it starts or it runs.
Busy(h) == Runs(h) \/ Starting(h)

\* a is still to be initialized by the restore.
Listed(a) == \E i \in 1..Len(restoring) : restoring[i] = a

HostStates == [of : Agents \cup {Nobody},
               at : {"unused", "initializing", "live", "failover", "stopped"},
               why : {"none", "spawn", "resurrect", "restore"}]

(* A host is in use if it is somebody's. *)
Owned ==
    \A h \in Hosts : IF host[h].at = "unused" THEN host[h].of = Nobody ELSE host[h].of \in Agents

(* A process that is down has no memory. *)
DownIsEmpty ==
    server = "down" =>
        /\ \A h \in Hosts : host[h] = Unused
        /\ \A a \in Agents : registry[a] = NoHost
        /\ restoring = <<>>
        /\ \A r \in Reminders : reminders[r] = Nobody

(* The restore's list names nobody twice. *)
ListedOnce == \A i, j \in 1..Len(restoring) : restoring[i] = restoring[j] => i = j

(* What is registered runs, and it is the agent's. *)
RegisteredRuns ==
    \A a \in Agents : registry[a] # NoHost => host[registry[a]].of = a /\ Runs(registry[a])

(* An agent is in one place only: in the restore's list, in a host that starts
   and is not registered yet, or in a host that runs and is registered; and in
   none of them unless its row is active. *)
Placed(a) ==
    /\ \A g, h \in HostsOf(a) : Busy(g) /\ Busy(h) => g = h
    /\ \A h \in HostsOf(a) : Runs(h) => registry[a] = h
    /\ \A h \in HostsOf(a) : Starting(h) => registry[a] = NoHost
    /\ Listed(a) => registry[a] = NoHost /\ \A h \in HostsOf(a) : ~Busy(h)
    /\ row[a] # "active" =>
        registry[a] = NoHost /\ ~Listed(a) /\ \A h \in HostsOf(a) : ~Busy(h)

(* A row that is active has a host, is about to get one, or somebody was told. *)
Remembered(a) ==
    server # "down" /\ row[a] = "active" /\ registry[a] = NoHost =>
        (\E h \in HostsOf(a) : Starting(h)) \/ Listed(a) \/ a \in told

IInv ==
    /\ TypeOK
    /\ Owned
    /\ DownIsEmpty
    /\ ListedOnce
    /\ RegisteredRuns
    /\ \A a \in Agents \ missed : Placed(a) /\ Remembered(a)

-----------------------------------------------------------------------------
(* What the helpers of the actions return *)

(* A set of numbers that is not empty has a least element. *)
LEMMA LeastExists ==
    ASSUME NEW S \in SUBSET Nat, S # {}
    PROVE  \E g \in S : \A f \in S : g <= f
<1>1. PICK g \in S : \A f \in S : <<f, g>> \notin OpToRel(<, Nat)
  BY NatLessThanWellFounded, WFMin
<1>2. \A f \in S : ~(f < g)
  BY <1>1 DEF OpToRel
<1> QED BY <1>2

(* Initialize takes a host that was not in use, and registers nothing. *)
LEMMA InitializeTakesFree ==
    ASSUME TypeOK, NEW a, NEW why, Free # {}, Initialize(a, why)
    PROVE  /\ registry' = registry
           /\ \E h \in Hosts :
                /\ host[h].at = "unused"
                /\ host' = [host EXCEPT ![h] = [of |-> a, at |-> "initializing", why |-> why]]
<1> DEFINE h == CHOOSE g \in Free : \A f \in Free : g <= f
<1>1. Free \in SUBSET Nat
  BY LifecycleAssumption DEF Free
<1>2. h \in Free
  BY <1>1, LeastExists
<1>3. /\ registry' = registry
      /\ host' = [host EXCEPT ![h] = [of |-> a, at |-> "initializing", why |-> why]]
  BY DEF Initialize
<1> QED BY <1>2, <1>3 DEF Free

(* Where there is room there is a host to take. *)
LEMMA RoomIsFree ==
    ASSUME TypeOK, Room
    PROVE  Free # {}
<1>1. Len(restoring) \in Nat
  BY DEF TypeOK
<1> SUFFICES ASSUME Free = {} PROVE FALSE
  OBVIOUS
<1>2. Cardinality(Free) = 0
  BY FS_EmptySet
<1> QED BY <1>1, <1>2 DEF Room

(* The rows a query returns are each in the list, once. *)
LEMMA ByIdLists ==
    ASSUME NEW S \in SUBSET Agents, NEW list \in ById(S)
    PROVE  /\ list \in Seq(S)
           /\ \A i, j \in 1..Len(list) : list[i] = list[j] => i = j
           /\ \A a \in S : \E i \in 1..Len(list) : list[i] = a
<1>1. IsFiniteSet(S) /\ Cardinality(S) \in Nat
  BY LifecycleAssumption, FS_Subset, FS_CardinalityType
<1> DEFINE n == Cardinality(S)
<1>2. /\ list \in [1..n -> S]
      /\ \A i, j \in 1..n : i < j => list[i] < list[j]
  BY DEF ById
<1>3. list \in Seq(S) /\ Len(list) = n
  BY <1>1, <1>2
<1>4. \A i, j \in 1..n : list[i] = list[j] => i = j
  <2>1. \A i \in 1..n : list[i] \in Nat
    BY <1>2, LifecycleAssumption
  <2>2. \A i, j \in 1..n : i # j => i < j \/ j < i
    BY <1>1
  <2> QED BY <1>2, <2>1, <2>2
<1>5. list \in Injection(1..n, S)
  BY <1>2, <1>4 DEF Injection, IsInjective
<1>6. Cardinality(1..n) = n
  BY <1>1, FS_Interval
<1>7. list \in Surjection(1..n, S)
  BY <1>1, <1>5, <1>6, FS_Injection
<1> QED BY <1>3, <1>4, <1>7 DEF Surjection

-----------------------------------------------------------------------------
(* The invariant holds at first, and each action keeps it *)

(* At first the server is down and no host exists. *)
LEMMA InitInv == Init => IInv
<1> SUFFICES ASSUME Init PROVE IInv
  OBVIOUS
<1>1. TypeOK
  BY DEF Init, TypeOK, Unused
<1>5. Owned
  BY DEF Init, Owned, Unused
<1>2. \A h \in Hosts : ~Busy(h)
  BY DEF Init, Unused, Busy, Runs, Starting
<1>3. DownIsEmpty /\ ListedOnce /\ RegisteredRuns
  BY DEF Init, DownIsEmpty, ListedOnce, RegisteredRuns
<1>4. \A a \in Agents : Placed(a) /\ Remembered(a)
  BY <1>2 DEF Init, Placed, Remembered, Listed, HostsOf, Busy, Unused
<1> QED BY <1>1, <1>3, <1>4, <1>5 DEF IInv

\* Nothing about a changed, except perhaps that its failed start was reported.
Untouched(a) ==
    /\ server' = "down" <=> server = "down"
    /\ row'[a] = row[a] /\ registry'[a] = registry[a]
    /\ \A h \in Hosts : host'[h].of = a <=> host[h].of = a
    /\ \A h \in HostsOf(a) : Runs(h)' = Runs(h) /\ Starting(h)' = Starting(h)
    /\ Listed(a)' = Listed(a)
    /\ a \in told => a \in told'

(* A step that touches neither row nor hosts of an agent keeps its place. *)
LEMMA UntouchedStays ==
    ASSUME NEW a \in Agents, Placed(a), Remembered(a), Untouched(a)
    PROVE  Placed(a)' /\ Remembered(a)'
<1>1. HostsOf(a)' = HostsOf(a)
  BY DEF Untouched, HostsOf
<1>2. \A h \in HostsOf(a) : Busy(h)' = Busy(h)
  BY DEF Untouched, Busy
<1>3. Placed(a)'
  BY <1>1, <1>2 DEF Untouched, Placed
<1>4. Remembered(a)'
  BY <1>1 DEF Untouched, Remembered
<1> QED BY <1>3, <1>4

(* initialize() is done. *)
LEMMA InitializedKeeps ==
    ASSUME IInv, NEW h \in Hosts, Initialized(h)
    PROVE  IInv'
<1> DEFINE a == host[h].of
<1>1. /\ host' = [host EXCEPT ![h].at = "live", ![h].why = "none"]
      /\ registry' = [registry EXCEPT ![a] = h]
      /\ UNCHANGED <<server, row, restoring, reminders, told, missed>>
      /\ host[h].at = "initializing"
      /\ host[h] \in HostStates
  BY DEF IInv, TypeOK, HostStates, Initialized, Starting
<1>7. a \in Agents
  BY <1>1 DEF IInv, Owned
<1>8. Owned'
  BY <1>1 DEF IInv, TypeOK, Owned
<1>2. TypeOK'
  <2>1. host' \in [Hosts -> HostStates]
    BY <1>1 DEF IInv, TypeOK, HostStates
  <2>2. registry' \in [Agents -> Hosts \cup {NoHost}]
    BY <1>1, <1>7 DEF IInv, TypeOK
  <2>3. inbox' \subseteq Hosts
    BY DEF IInv, TypeOK, Initialized
  <2> QED BY <1>1, <2>1, <2>2, <2>3 DEF IInv, TypeOK, HostStates
<1>3. server # "down"
  BY <1>1 DEF IInv, DownIsEmpty, Unused
<1>4. DownIsEmpty' /\ ListedOnce'
  BY <1>1, <1>3 DEF IInv, DownIsEmpty, ListedOnce
<1>5. RegisteredRuns'
  BY <1>1 DEF IInv, TypeOK, RegisteredRuns, Runs
<1>6. ASSUME NEW b \in Agents \ missed' PROVE Placed(b)' /\ Remembered(b)'
  <2>1. Placed(b) /\ Remembered(b)
    BY <1>1 DEF IInv
  <2>2. CASE b # a
    <3>1. Untouched(b)
      BY <1>1, <2>2 DEF Untouched, IInv, TypeOK, HostsOf, Runs, Starting, Listed
    <3> QED BY <2>1, <3>1, UntouchedStays
  <2>3. CASE b = a
    <3>1. /\ HostsOf(b)' = HostsOf(b) /\ h \in HostsOf(b)
          /\ registry'[b] = h /\ h # NoHost
          /\ \A g \in HostsOf(b) : Busy(g)' <=> Busy(g)
          /\ \A g \in HostsOf(b) : ~Starting(g)'
      BY <1>1, <2>1, <2>3, LifecycleAssumption
      DEF IInv, TypeOK, Placed, HostsOf, Busy, Runs, Starting, NoHost
    <3>2. Busy(h) /\ row[b] = "active" /\ ~Listed(b)
      BY <1>1, <2>1, <3>1 DEF Placed, Busy, Starting
    <3>3. Placed(b)'
      BY <1>1, <2>1, <3>1, <3>2 DEF Placed, Busy, Listed
    <3> QED BY <3>1, <3>3 DEF Remembered
  <2> QED BY <2>2, <2>3
<1> QED BY <1>1, <1>2, <1>4, <1>5, <1>6, <1>8 DEF IInv

(* initialize() threw. *)
LEMMA InitializeFailsKeeps ==
    ASSUME IInv, NEW h \in Hosts, InitializeFails(h)
    PROVE  IInv'
<1> DEFINE a == host[h].of
<1>1. /\ host' = [host EXCEPT ![h] = Unused]
      /\ UNCHANGED <<server, registry, inbox, restoring, reminders, missed>>
      /\ host[h].at = "initializing"
      /\ host[h] \in HostStates
  BY DEF IInv, TypeOK, HostStates, InitializeFails, Starting
<1>2. \/ row' = [row EXCEPT ![a] = "archived"] /\ told' = told
      \/ row' = row /\ told' = told \cup {a}
  BY DEF InitializeFails, AfterFailure
<1>3. server # "down"
  BY <1>1 DEF IInv, DownIsEmpty, Unused
<1>4. a \in Agents
  BY <1>1 DEF IInv, Owned
<1>5. TypeOK'
  <2>1. host' \in [Hosts -> HostStates]
    BY <1>1 DEF IInv, TypeOK, HostStates, Unused
  <2>2. row' \in [Agents -> {"none", "active", "archived"}] /\ told' \subseteq Agents
    BY <1>2, <1>4 DEF IInv, TypeOK
  <2> QED BY <1>1, <2>1, <2>2 DEF IInv, TypeOK, HostStates
<1>6. DownIsEmpty' /\ ListedOnce'
  BY <1>1, <1>3 DEF IInv, DownIsEmpty, ListedOnce
<1>7. RegisteredRuns'
  BY <1>1 DEF IInv, TypeOK, RegisteredRuns, Runs
<1>8. Owned'
  BY <1>1 DEF IInv, TypeOK, Owned, Unused
<1>9. ASSUME NEW b \in Agents \ missed' PROVE Placed(b)' /\ Remembered(b)'
  <2>1. Placed(b) /\ Remembered(b)
    BY <1>1 DEF IInv
  <2>2. CASE b # a
    <3>1. b # Nobody
      BY LifecycleAssumption DEF Nobody
    <3>2. Untouched(b)
      BY <1>1, <1>2, <2>2, <3>1
      DEF Untouched, IInv, TypeOK, HostsOf, Runs, Starting, Listed, Unused
    <3> QED BY <2>1, <3>2, UntouchedStays
  <2>3. CASE b = a
    <3>1. /\ registry[b] = NoHost /\ ~Listed(b)
          /\ \A g \in HostsOf(b) : Busy(g) => g = h
      BY <1>1, <2>1, <2>3 DEF Placed, HostsOf, Busy, Starting
    <3>2. \A g \in HostsOf(b)' : ~Busy(g)'
      BY <1>1, <3>1 DEF IInv, TypeOK, HostsOf, Busy, Runs, Starting, Unused
    <3>3. registry'[b] = NoHost /\ ~Listed(b)'
      BY <1>1, <3>1 DEF Listed
    <3>4. Placed(b)'
      BY <3>2, <3>3 DEF Placed, Busy
    <3>5. row'[b] = "archived" \/ b \in told'
      BY <1>2, <2>3 DEF IInv, TypeOK
    <3> QED BY <3>4, <3>5 DEF Remembered
  <2> QED BY <2>2, <2>3
<1> QED BY <1>1, <1>5, <1>6, <1>7, <1>8, <1>9 DEF IInv

(* Steps that start, stop and register nobody: deliveries, answers, reminders, a
   failover and its end, the end of the restore. *)
LEMMA QuietKeeps ==
    ASSUME IInv, TypeOK',
           UNCHANGED <<row, registry, restoring, told, missed>>,
           server # "down", server' # "down",
           \A h \in Hosts : /\ host'[h].of = host[h].of
                            /\ host'[h].at = "unused" <=> host[h].at = "unused"
                            /\ Runs(h)' = Runs(h)
                            /\ Starting(h)' = Starting(h)
    PROVE  IInv'
<1>1. Owned' /\ DownIsEmpty' /\ ListedOnce' /\ RegisteredRuns'
  BY DEF IInv, TypeOK, Owned, DownIsEmpty, ListedOnce, RegisteredRuns
<1>2. ASSUME NEW a \in Agents \ missed' PROVE Placed(a)' /\ Remembered(a)'
  <2>1. Placed(a) /\ Remembered(a)
    BY DEF IInv
  <2>2. Untouched(a)
    BY DEF Untouched, HostsOf, Listed
  <2> QED BY <2>1, <2>2, UntouchedStays
<1> QED BY <1>1, <1>2 DEF IInv

(* Steps that put an agent which is in no other place into a new host. *)
LEMMA StartKeeps ==
    ASSUME IInv, NEW a \in Agents, NEW h \in Hosts, NEW why,
           TypeOK', ListedOnce',
           server # "down",
           UNCHANGED <<server, registry, missed>>,
           host[h].at = "unused",
           host' = [host EXCEPT ![h] = [of |-> a, at |-> "initializing", why |-> why]],
           told \ {a} \subseteq told',
           \A b \in Agents \ {a} : row'[b] = row[b] /\ Listed(b)' = Listed(b),
           a \notin missed =>
                /\ row'[a] = "active" /\ registry[a] = NoHost /\ ~Listed(a)'
                /\ \A g \in HostsOf(a) : ~Busy(g)
    PROVE  IInv'
<1>1. Owned' /\ DownIsEmpty'
  BY DEF IInv, TypeOK, Owned, DownIsEmpty
<1>2. RegisteredRuns'
  BY DEF IInv, TypeOK, RegisteredRuns, Runs
<1>3. ASSUME NEW b \in Agents \ missed' PROVE Placed(b)' /\ Remembered(b)'
  <2>1. Placed(b) /\ Remembered(b)
    BY DEF IInv
  <2>2. CASE b # a
    <3>1. h \notin HostsOf(b) /\ h \notin HostsOf(b)'
      BY <2>2, LifecycleAssumption DEF HostsOf, IInv, TypeOK, Owned, Nobody
    <3>2. \A g \in Hosts \ {h} : host'[g] = host[g]
      BY DEF IInv, TypeOK
    <3>3. Untouched(b)
      BY <2>2, <3>1, <3>2 DEF Untouched, HostsOf, Runs, Starting
    <3> QED BY <2>1, <3>3, UntouchedStays
  <2>3. CASE b = a
    <3>1. registry'[b] = NoHost /\ ~Listed(b)'
      BY <1>3, <2>3
    <3>2. \A g \in HostsOf(b)' : Busy(g)' => g = h
      BY <1>3, <2>3 DEF HostsOf, Busy, Runs, Starting, IInv, TypeOK
    <3>3. h \in HostsOf(b)' /\ Starting(h)' /\ ~Runs(h)'
      BY <2>3 DEF HostsOf, Starting, Runs, IInv, TypeOK
    <3>4. Placed(b)'
      BY <2>3, <3>1, <3>2, <3>3 DEF Placed, Busy
    <3> QED BY <3>3, <3>4 DEF Remembered
  <2> QED BY <2>2, <2>3
<1> QED BY <1>1, <1>2, <1>3 DEF IInv

(* The bookkeeping of the tools that start a host. *)
LEMMA StartedTyped ==
    ASSUME TypeOK, NEW a \in Agents, NEW h \in Hosts, NEW why \in {"spawn", "resurrect", "restore"},
           host' = [host EXCEPT ![h] = [of |-> a, at |-> "initializing", why |-> why]]
    PROVE  host' \in [Hosts -> HostStates]
BY DEF TypeOK, HostStates

(* spawn_agent *)
LEMMA SpawnKeeps ==
    ASSUME IInv, NEW c \in Callers, NEW a \in Agents, Spawn(c, a)
    PROVE  IInv'
<1>1. /\ server # "down" /\ row[a] = "none"
      /\ row' = [row EXCEPT ![a] = "active"]
      /\ UNCHANGED <<server, inbox, restoring, reminders, told, missed>>
      /\ Initialize(a, "spawn") /\ Room /\ TypeOK
  BY DEF Spawn, IInv
<1>2. /\ registry' = registry
      /\ \E h \in Hosts :
            /\ host[h].at = "unused"
            /\ host' = [host EXCEPT ![h] = [of |-> a, at |-> "initializing", why |-> "spawn"]]
  BY <1>1, RoomIsFree, InitializeTakesFree
<1>3. PICK h \in Hosts :
            /\ host[h].at = "unused"
            /\ host' = [host EXCEPT ![h] = [of |-> a, at |-> "initializing", why |-> "spawn"]]
  BY <1>2
<1>4. host' \in [Hosts -> HostStates]
  BY <1>1, <1>3, StartedTyped
<1>5. TypeOK' /\ ListedOnce'
  BY <1>1, <1>2, <1>4 DEF IInv, TypeOK, HostStates, ListedOnce
<1>6. \A b \in Agents \ {a} : row'[b] = row[b] /\ Listed(b)' = Listed(b)
  BY <1>1 DEF TypeOK, Listed
<1>7. row'[a] = "active" /\ Listed(a)' = Listed(a)
  BY <1>1 DEF TypeOK, Listed
<1>8. a \notin missed => Placed(a)
  BY DEF IInv
<1> QED BY <1>1, <1>2, <1>3, <1>5, <1>6, <1>7, <1>8, StartKeeps DEF Placed

(* resurrect_agent *)
LEMMA ResurrectKeeps ==
    ASSUME IInv, NEW c \in Callers, NEW a \in Agents, Resurrect(c, a)
    PROVE  IInv'
<1>1. /\ server # "down" /\ row[a] = "archived"
      /\ row' = [row EXCEPT ![a] = "active"]
      /\ told' = told \ {a}
      /\ UNCHANGED <<server, inbox, restoring, reminders, missed>>
      /\ Initialize(a, "resurrect") /\ Room /\ TypeOK
  BY DEF Resurrect, IInv
<1>2. /\ registry' = registry
      /\ \E h \in Hosts :
            /\ host[h].at = "unused"
            /\ host' = [host EXCEPT ![h] = [of |-> a, at |-> "initializing", why |-> "resurrect"]]
  BY <1>1, RoomIsFree, InitializeTakesFree
<1>3. PICK h \in Hosts :
            /\ host[h].at = "unused"
            /\ host' = [host EXCEPT ![h] = [of |-> a, at |-> "initializing", why |-> "resurrect"]]
  BY <1>2
<1>4. host' \in [Hosts -> HostStates]
  BY <1>1, <1>3, StartedTyped
<1>5. TypeOK' /\ ListedOnce'
  BY <1>1, <1>2, <1>4 DEF IInv, TypeOK, HostStates, ListedOnce
<1>6. \A b \in Agents \ {a} : row'[b] = row[b] /\ Listed(b)' = Listed(b)
  BY <1>1 DEF TypeOK, Listed
<1>7. row'[a] = "active" /\ Listed(a)' = Listed(a)
  BY <1>1 DEF TypeOK, Listed
<1>8. a \notin missed => Placed(a)
  BY DEF IInv
<1> QED BY <1>1, <1>2, <1>3, <1>5, <1>6, <1>7, <1>8, StartKeeps DEF Placed

(* The loop of restoreActiveAgents: the first of the list. *)
LEMMA RestoreNextKeeps ==
    ASSUME IInv, RestoreNext
    PROVE  IInv'
<1> SUFFICES ASSUME NEW a, a = Head(restoring) PROVE IInv'
  OBVIOUS
<1>1. /\ server = "restoring" /\ restoring # <<>> /\ Free # {}
      /\ restoring' = Tail(restoring)
      /\ UNCHANGED <<server, row, inbox, reminders, told, missed>>
      /\ Initialize(a, "restore") /\ TypeOK
  BY DEF RestoreNext, Remaining, IInv
<1>2. /\ restoring \in Seq(Agents) /\ Len(restoring) \in Nat /\ Len(restoring) > 0
      /\ a = restoring[1] /\ a \in Agents
      /\ restoring' \in Seq(Agents) /\ Len(restoring') = Len(restoring) - 1
      /\ \A i \in 1..Len(restoring') : restoring'[i] = restoring[i + 1]
  BY <1>1 DEF TypeOK
<1>3. /\ registry' = registry
      /\ \E h \in Hosts :
            /\ host[h].at = "unused"
            /\ host' = [host EXCEPT ![h] = [of |-> a, at |-> "initializing", why |-> "restore"]]
  BY <1>1, InitializeTakesFree
<1>4. PICK h \in Hosts :
            /\ host[h].at = "unused"
            /\ host' = [host EXCEPT ![h] = [of |-> a, at |-> "initializing", why |-> "restore"]]
  BY <1>3
<1>5. host' \in [Hosts -> HostStates]
  BY <1>1, <1>2, <1>4, StartedTyped
<1>6. TypeOK'
  BY <1>1, <1>2, <1>3, <1>5 DEF TypeOK, HostStates
<1>7. ListedOnce /\ ListedOnce'
  BY <1>2 DEF IInv, ListedOnce
<1>8. Listed(a) /\ ~Listed(a)'
  <2>1. 1 \in 1..Len(restoring) /\ \A i \in 1..Len(restoring') : i + 1 \in 1..Len(restoring)
    BY <1>2
  <2>2. Listed(a)
    BY <1>2, <2>1 DEF Listed
  <2>3. ASSUME NEW i \in 1..Len(restoring'), restoring'[i] = a PROVE FALSE
    <3>1. i + 1 = 1
      BY <1>2, <1>7, <2>1, <2>3 DEF ListedOnce
    <3> QED BY <1>2, <3>1
  <2> QED BY <2>2, <2>3 DEF Listed
<1>9. ASSUME NEW b \in Agents \ {a} PROVE Listed(b)' = Listed(b)
  <2>1. ASSUME NEW i \in 1..Len(restoring), restoring[i] = b
        PROVE  Listed(b)'
    <3>1. i # 1 /\ i - 1 \in 1..Len(restoring') /\ restoring'[i - 1] = b
      BY <1>2, <2>1
    <3> QED BY <3>1 DEF Listed
  <2>2. Listed(b)' => Listed(b)
    <3>1. \A i \in 1..Len(restoring') : i + 1 \in 1..Len(restoring)
      BY <1>2
    <3> QED BY <1>2, <3>1 DEF Listed
  <2> QED BY <2>1, <2>2 DEF Listed
<1>10. a \notin missed => Placed(a)
  BY <1>2 DEF IInv
<1>11. a \notin missed => row'[a] = "active"
  BY <1>1, <1>8, <1>10 DEF Placed
<1>12. a \notin missed => registry[a] = NoHost /\ \A g \in HostsOf(a) : ~Busy(g)
  BY <1>8, <1>10 DEF Placed
<1> QED BY <1>1, <1>2, <1>3, <1>4, <1>6, <1>7, <1>8, <1>9, <1>11, <1>12, StartKeeps

(* start(): the list of the restore is read. *)
LEMMA StartReads ==
    ASSUME IInv, Start
    PROVE  IInv'
<1> DEFINE S == {a \in Agents : row[a] = "active"}
<1>1. /\ server = "down" /\ server' = "restoring"
      /\ restoring' \in ById(S)
      /\ UNCHANGED <<row, registry, host, inbox, reminders, told, missed>>
  BY DEF Start
<1>2. /\ restoring' \in Seq(S)
      /\ \A i, j \in 1..Len(restoring') : restoring'[i] = restoring'[j] => i = j
      /\ \A a \in S : \E i \in 1..Len(restoring') : restoring'[i] = a
  <2>1. S \in SUBSET Agents
    OBVIOUS
  <2> HIDE DEF S
  <2> QED BY <1>1, <2>1, ByIdLists
<1>3. restoring' \in Seq(Agents)
  BY <1>2
<1>4. TypeOK' /\ Owned' /\ DownIsEmpty' /\ ListedOnce'
  BY <1>1, <1>2, <1>3 DEF IInv, TypeOK, Owned, DownIsEmpty, ListedOnce
<1>5. /\ \A a \in Agents : registry'[a] = NoHost
      /\ \A h \in Hosts : host'[h] = Unused
  BY <1>1 DEF IInv, DownIsEmpty
<1>6. \A h \in Hosts : ~Busy(h)'
  BY <1>5 DEF Busy, Runs, Starting, Unused
<1>7. \A a \in Agents : Listed(a)' <=> a \in S
  <2>1. \A i \in 1..Len(restoring') : restoring'[i] \in S
    BY <1>2
  <2> QED BY <1>2, <2>1 DEF Listed
<1>8. ASSUME NEW a \in Agents \ missed' PROVE Placed(a)' /\ Remembered(a)'
  BY <1>1, <1>5, <1>6, <1>7 DEF Placed, Remembered, HostsOf, Busy
<1>9. RegisteredRuns'
  BY <1>5 DEF RegisteredRuns
<1> QED BY <1>4, <1>8, <1>9 DEF IInv

(* stop(), or a crash *)
LEMMA StopKeeps ==
    ASSUME IInv, Stop
    PROVE  IInv'
<1>1. /\ server' = "down"
      /\ registry' = [a \in Agents |-> NoHost]
      /\ host' = [h \in Hosts |-> Unused]
      /\ restoring' = <<>>
      /\ reminders' = [r \in Reminders |-> Nobody]
      /\ row' = row
  BY DEF Stop
<1>2. TypeOK'
  BY <1>1 DEF IInv, TypeOK, Stop, Unused
<1>3. Owned' /\ DownIsEmpty' /\ ListedOnce' /\ RegisteredRuns'
  BY <1>1 DEF Owned, DownIsEmpty, ListedOnce, RegisteredRuns, Unused
<1>4. \A h \in Hosts : ~Busy(h)'
  BY <1>1 DEF Busy, Runs, Starting, Unused
<1>5. \A a \in Agents : Placed(a)' /\ Remembered(a)'
  BY <1>1, <1>4 DEF Placed, Remembered, Listed, HostsOf, Busy
<1> QED BY <1>2, <1>3, <1>5 DEF IInv

(* terminate_agent *)
LEMMA TerminateKeeps ==
    ASSUME IInv, NEW c \in Callers, NEW a \in Agents, Terminate(c, a)
    PROVE  IInv'
<1>1. /\ server # "down" /\ row' = [row EXCEPT ![a] = "archived"]
      /\ UNCHANGED <<server, restoring, reminders, told>>
  BY DEF Terminate
<1>2. /\ missed \subseteq missed' /\ missed' \subseteq missed \cup {a}
      /\ a \notin missed' => /\ ~Listed(a)
                             /\ \A h \in HostsOf(a) : host[h].at \notin {"initializing", "failover"}
  BY DEF Terminate, Listed
<1>3. CASE registry[a] = NoHost
  <2>1. UNCHANGED <<registry, host, inbox>>
    BY <1>3 DEF Terminate
  <2>2. TypeOK' /\ Owned' /\ DownIsEmpty' /\ ListedOnce' /\ RegisteredRuns'
    BY <1>1, <1>2, <2>1 DEF IInv, TypeOK, Owned, DownIsEmpty, ListedOnce, RegisteredRuns, Runs
  <2>3. ASSUME NEW b \in Agents \ missed' PROVE Placed(b)' /\ Remembered(b)'
    <3>1. Placed(b) /\ Remembered(b)
      BY <1>2 DEF IInv
    <3>2. CASE b # a
      <4>1. Untouched(b)
        BY <1>1, <2>1, <3>2 DEF Untouched, IInv, TypeOK, HostsOf, Runs, Starting, Listed
      <4> QED BY <3>1, <4>1, UntouchedStays
    <3>3. CASE b = a
      <4>1. \A h \in HostsOf(b)' : h \in HostsOf(b) /\ ~Busy(h)'
        BY <1>2, <1>3, <2>1, <3>1, <3>3, LifecycleAssumption
        DEF Placed, HostsOf, Busy, Runs, Starting, NoHost
      <4>2. registry'[b] = NoHost /\ ~Listed(b)' /\ row'[b] = "archived"
        BY <1>1, <1>2, <1>3, <2>1, <3>3 DEF Listed, IInv, TypeOK
      <4> QED BY <4>1, <4>2 DEF Placed, Remembered, Busy
    <3> QED BY <3>2, <3>3
  <2> QED BY <2>2, <2>3 DEF IInv
<1>4. CASE registry[a] # NoHost
  <2> DEFINE h == registry[a]
  <2>1. /\ h \in Hosts /\ host[h].of = a /\ host[h].at \in {"live", "failover"}
        /\ registry' = [registry EXCEPT ![a] = NoHost]
        /\ inbox' = inbox \ {h}
    BY <1>4 DEF IInv, TypeOK, RegisteredRuns, Runs, Terminate, Unregistered
  <2>2. host' = IF host[h].at = "failover" THEN host ELSE [host EXCEPT ![h] = Unused]
    BY <1>4, <2>1, LifecycleAssumption DEF IInv, TypeOK, Terminate, Aborted, Unregistered, NoHost
  <2>3. TypeOK'
    <3>1. host' \in [Hosts -> HostStates]
      BY <2>2 DEF IInv, TypeOK, HostStates, Unused
    <3> QED BY <1>1, <1>2, <2>1, <3>1 DEF IInv, TypeOK, HostStates
  <2>4. Owned' /\ DownIsEmpty' /\ ListedOnce'
    BY <1>1, <2>1, <2>2 DEF IInv, TypeOK, Owned, DownIsEmpty, ListedOnce, Unused
  <2>5. RegisteredRuns'
    BY <2>1, <2>2 DEF IInv, TypeOK, RegisteredRuns, Runs
  <2>6. ASSUME NEW b \in Agents \ missed' PROVE Placed(b)' /\ Remembered(b)'
    <3>1. Placed(b) /\ Remembered(b)
      BY <1>2 DEF IInv
    <3>2. CASE b # a
      <4>1. b # Nobody
        BY LifecycleAssumption DEF Nobody
      <4>2. Untouched(b)
        BY <1>1, <2>1, <2>2, <3>2, <4>1
        DEF Untouched, IInv, TypeOK, HostsOf, Runs, Starting, Listed, Unused
      <4> QED BY <3>1, <4>2, UntouchedStays
    <3>3. CASE b = a
      <4>1. host[h].at = "live" /\ h \in HostsOf(b)
        BY <1>2, <2>1, <3>3 DEF HostsOf
      <4>2. \A g \in HostsOf(b) : Busy(g) => g = h
        BY <3>1, <4>1 DEF Placed, Busy, Runs
      <4>3. \A g \in HostsOf(b)' : g \in HostsOf(b) /\ ~Busy(g)'
        BY <2>1, <2>2, <3>3, <4>1, <4>2, LifecycleAssumption
        DEF IInv, TypeOK, HostsOf, Busy, Runs, Starting, Unused, Nobody
      <4>4. registry'[b] = NoHost /\ ~Listed(b)' /\ row'[b] = "archived"
        BY <1>1, <1>2, <2>1, <3>3 DEF Listed, IInv, TypeOK
      <4> QED BY <4>3, <4>4 DEF Placed, Remembered, Busy
    <3> QED BY <3>2, <3>3
  <2> QED BY <2>3, <2>4, <2>5, <2>6 DEF IInv
<1> QED BY <1>3, <1>4

-----------------------------------------------------------------------------
(* The invariant, and what follows from it *)

(* Deliveries, reminders, failovers: nobody is started or stopped. *)
LEMMA QuietSteps ==
    ASSUME IInv,
           \/ \E c \in Callers, a \in Agents : Message(c, a)
           \/ \E h \in Hosts : Failover(h) \/ FailedOver(h) \/ Answer(h)
           \/ \E a \in Callers \ {Guide}, r \in Reminders : SetReminder(a, r) \/ CancelReminder(a, r)
           \/ \E r \in Reminders : FireReminder(r)
           \/ RestoreDone
    PROVE  IInv'
<1>1. ASSUME NEW c \in Callers, NEW a \in Agents, Message(c, a) PROVE IInv'
  <2>1. TypeOK' /\ server # "down" /\ server' = server /\ host' = host
    BY <1>1 DEF Message, IInv, TypeOK
  <2> QED BY <1>1, <2>1, QuietKeeps DEF Message, Runs, Starting
<1>2. ASSUME NEW h \in Hosts, Failover(h) \/ FailedOver(h) PROVE IInv'
  <2>1. server # "down" /\ server' = server
    BY <1>2 DEF Failover, FailedOver, IInv, DownIsEmpty, Unused
  <2>2. \E at \in {"live", "failover"} :
            host[h].at \in {"live", "failover"} /\ host' = [host EXCEPT ![h].at = at]
    BY <1>2 DEF Failover, FailedOver
  <2>3. UNCHANGED <<row, registry, inbox, restoring, reminders, told, missed>>
    BY <1>2 DEF Failover, FailedOver
  <2>4. host' \in [Hosts -> HostStates]
    <3>1. PICK at \in {"live", "failover"} : host' = [host EXCEPT ![h].at = at]
      BY <2>2
    <3>2. host \in [Hosts -> HostStates]
      BY DEF IInv, TypeOK, HostStates
    <3>3. [host[h] EXCEPT !.at = at] \in HostStates
      BY <3>2 DEF HostStates
    <3> QED BY <3>1, <3>2, <3>3
  <2>5. TypeOK'
    BY <2>1, <2>3, <2>4 DEF IInv, TypeOK, HostStates
  <2>6. \A g \in Hosts : /\ host'[g].of = host[g].of
                         /\ host'[g].at = "unused" <=> host[g].at = "unused"
                         /\ Runs(g)' = Runs(g)
                         /\ Starting(g)' = Starting(g)
    BY <2>2 DEF IInv, TypeOK, Runs, Starting
  <2> QED BY <2>1, <2>3, <2>5, <2>6, QuietKeeps
<1>3. ASSUME NEW h \in Hosts, Answer(h) PROVE IInv'
  <2>1. TypeOK' /\ server # "down" /\ server' = server /\ host' = host
    BY <1>3 DEF Answer, IInv, TypeOK, DownIsEmpty, Unused
  <2> QED BY <1>3, <2>1, QuietKeeps DEF Answer, Runs, Starting
<1>4. ASSUME NEW a \in Callers \ {Guide}, NEW r \in Reminders,
             SetReminder(a, r) \/ CancelReminder(a, r)
      PROVE  IInv'
  <2>1. PICK h \in Hosts : host[h].at = "live"
    BY <1>4 DEF Callers, HostsOf
  <2>2. a \in Agents
    BY <1>4 DEF Callers
  <2>3. UNCHANGED <<server, row, registry, host, inbox, restoring, told, missed>>
    BY <1>4 DEF SetReminder, CancelReminder
  <2>4. TypeOK'
    BY <1>4, <2>2, <2>3 DEF SetReminder, CancelReminder, IInv, TypeOK
  <2>5. server # "down"
    BY <2>1 DEF IInv, DownIsEmpty, Unused
  <2> QED BY <2>3, <2>4, <2>5, QuietKeeps DEF Runs, Starting
<1>5. ASSUME NEW r \in Reminders, FireReminder(r) PROVE IInv'
  <2>1. TypeOK' /\ server # "down" /\ server' = server /\ host' = host
    BY <1>5 DEF FireReminder, IInv, TypeOK, DownIsEmpty
  <2> QED BY <1>5, <2>1, QuietKeeps DEF FireReminder, Runs, Starting
<1>6. ASSUME RestoreDone PROVE IInv'
  <2>1. TypeOK' /\ server # "down" /\ server' # "down" /\ host' = host
    BY <1>6 DEF RestoreDone, IInv, TypeOK
  <2> QED BY <1>6, <2>1, QuietKeeps DEF RestoreDone, Runs, Starting
<1> QED BY <1>1, <1>2, <1>3, <1>4, <1>5, <1>6

(* The invariant is inductive. *)
THEOREM Invariance == Spec => []IInv
<1>1. Init => IInv
  BY InitInv
<1>2. IInv /\ [Next]_vars => IInv'
  <2> SUFFICES ASSUME IInv, [Next]_vars PROVE IInv'
    OBVIOUS
  <2>1. CASE Tools
    BY <2>1, SpawnKeeps, ResurrectKeeps, TerminateKeeps, QuietSteps DEF Tools
  <2>2. CASE \E h \in Hosts :
                Initialized(h) \/ InitializeFails(h) \/ Failover(h) \/ FailedOver(h) \/ Answer(h)
    BY <2>2, InitializedKeeps, InitializeFailsKeeps, QuietSteps
  <2>3. CASE \E a \in Callers \ {Guide}, r \in Reminders : SetReminder(a, r) \/ CancelReminder(a, r)
    BY <2>3, QuietSteps
  <2>4. CASE \E r \in Reminders : FireReminder(r)
    BY <2>4, QuietSteps
  <2>5. CASE Start \/ RestoreNext \/ RestoreDone \/ Stop
    BY <2>5, StartReads, RestoreNextKeeps, QuietSteps, StopKeeps
  <2>6. CASE UNCHANGED vars
    BY <2>6 DEF vars, IInv, TypeOK, Owned, DownIsEmpty, ListedOnce, RegisteredRuns, Placed,
                Remembered, Listed, HostsOf, Busy, Runs, Starting
  <2> QED BY <2>1, <2>2, <2>3, <2>4, <2>5, <2>6 DEF Next
<1> QED BY <1>1, <1>2, PTL DEF Spec

(* Whatever the order of spawn, terminate, resurrect and restore: an agent has at
   most one host that runs or starts, and what message_agent and the reminders
   find in the registry is a host of that agent that runs. *)
THEOREM OneHostEach == Spec => []OneHost
<1>1. IInv => OneHost
  BY DEF IInv, RegisteredRuns, Placed, OneHost, Busy
<1> QED BY <1>1, Invariance, PTL

(* An agent that is archived is registered nowhere, and no host of it runs. *)
THEOREM ArchivedStaysOut == Spec => []ArchivedIsOut
<1>1. IInv => ArchivedIsOut
  BY DEF IInv, Placed, ArchivedIsOut, Busy
<1> QED BY <1>1, Invariance, PTL

(* An agent that is active and has no host is being started, waits in the list of
   the restore, or its failed start was reported. *)
THEOREM NobodyForgotten == Spec => []NoSilentOrphan
<1>1. IInv => NoSilentOrphan
  BY DEF IInv, Remembered, Listed, NoSilentOrphan
<1> QED BY <1>1, Invariance, PTL
=============================================================================
