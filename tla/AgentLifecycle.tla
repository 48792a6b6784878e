--------------------------- MODULE AgentLifecycle ---------------------------
(***************************************************************************)
(* Which agents exist and which of them run: the agent rows of app.db, the *)
(* registry of AgentHosts, the tools that spawn, terminate, resurrect and  *)
(* message agents, the reminders, and what the server does with all of it  *)
(* at start and stop.                                                      *)
(*                                                                         *)
(* A tool is one action up to the await of initialize(), and a second one  *)
(* from there; everything else in it is synchronous. The Guide and the     *)
(* Narrator are created by the constructor of Server, registered for its   *)
(* whole life and refused by all three tools: the Guide appears here only  *)
(* as a caller.                                                            *)
(***************************************************************************)
EXTENDS Integers, Sequences, FiniteSets

CONSTANTS
    Guide,        \* the id of the Guide, as the caller of a tool
    Conductors,   \* ids of agents that orchestrate
    Workers,      \* ids of agents that do not (workers, reviewers)
    Projects,     \* the projects, each as the set of the ids in it
    Hosts,        \* numbers for AgentHost objects
    Reminders,    \* numbers for reminders
    Env           \* what may happen, a subset of AllEvents

AllEvents == {"failures",   \* initialize() may throw
              "failovers",  \* a host may replace its session
              "stops",      \* the process may end and be started again
              "reminders"}  \* agents set reminders

Agents == Conductors \cup Workers

ASSUME LifecycleAssumption ==
    /\ Agents \subseteq Nat
    /\ IsFiniteSet(Agents)
    /\ Conductors \cap Workers = {}
    /\ Guide \notin Agents
    /\ UNION Projects = Agents
    /\ \A P, Q \in Projects : P = Q \/ P \cap Q = {}
    /\ Hosts \subseteq Nat \ {0}
    /\ IsFiniteSet(Hosts)
    /\ Cardinality(Agents) < Cardinality(Hosts)
    /\ IsFiniteSet(Reminders)
    /\ Env \subseteq AllEvents

VARIABLES
    server,      \* down, restoring (in start(), tools already run), up
    row,         \* agent.status of every id, none before it is created
    registry,    \* AgentRegistry: the host of an agent, NoHost if none
    host,        \* every AgentHost: whose it is, what it does, who asked for it
    inbox,       \* hosts with deliveries they have not answered
    restoring,   \* agents restoreActiveAgents has still to initialize
    reminders,   \* ReminderManager: owner of a pending reminder, Nobody if none
    told,        \* agents whose failed start was reported to somebody
    missed       \* agents a terminate found starting, failing over or listed

vars == <<server, row, registry, host, inbox, restoring, reminders, told, missed>>

NoHost == 0
Nobody == -1

Unused == [of |-> Nobody, at |-> "unused", why |-> "none"]

Init ==
    /\ server = "down"
    /\ row = [a \in Agents |-> "none"]
    /\ registry = [a \in Agents |-> NoHost]
    /\ host = [h \in Hosts |-> Unused]
    /\ inbox = {}
    /\ restoring = <<>>
    /\ reminders = [r \in Reminders |-> Nobody]
    /\ told = {}
    /\ missed = {}

-----------------------------------------------------------------------------
(* Hosts *)

Starting(h) == host[h].at = "initializing"
Runs(h)     == host[h].at \in {"live", "failover"}

HostsOf(a) == {h \in Hosts : host[h].of = a}

\* A tool call is made in a turn, and a turn answers a delivery.
Callers ==
    {Guide} \cup {a \in Agents : \E h \in HostsOf(a) : host[h].at = "live" /\ h \in inbox}

\* Bound: the number of an object nobody refers to is used again.
Free == {h \in Hosts : host[h].at = "unused"}

\* initializeAgentHost up to the await of initialize(): nothing is registered yet.
Initialize(a, why) ==
    LET h == CHOOSE g \in Free : \A f \in Free : g <= f
    IN  /\ host' = [host EXCEPT ![h] = [of |-> a, at |-> "initializing", why |-> why]]
        /\ UNCHANGED registry

\* Bound: the tools leave the hosts that the restore still needs.
Room == Cardinality(Free) > Len(restoring)

\* What the tools check of the caller: the Guide, or a Conductor of the project.
MayManage(c, a) ==
    \/ c = Guide
    \/ c \in Conductors /\ \E P \in Projects : {c, a} \subseteq P

\* initialize() is done: register, then the caller's message is delivered.
Initialized(h) ==
    /\ Starting(h)
    /\ host' = [host EXCEPT ![h].at = "live", ![h].why = "none"]
    /\ registry' = [registry EXCEPT ![host[h].of] = h]
    /\ inbox' = IF host[h].why = "restore" THEN inbox ELSE inbox \cup {h}
    /\ UNCHANGED <<server, row, restoring, reminders, told, missed>>

\* Fault: the row of a failed resurrection stays active.
AfterFailureNoRollback(h) == row

\* A failed resurrection is rolled back; a failed spawn or restore is not.
AfterFailure(h) ==
    IF host[h].why = "resurrect" THEN [row EXCEPT ![host[h].of] = "archived"] ELSE row

\* initialize() threw. The tool's result tells the caller, the restore the Guide.
InitializeFails(h) ==
    /\ "failures" \in Env
    /\ Starting(h)
    /\ host' = [host EXCEPT ![h] = Unused]
    /\ row' = AfterFailure(h)
    /\ told' = IF host[h].why = "resurrect" THEN told ELSE told \cup {host[h].of}
    /\ UNCHANGED <<server, registry, inbox, restoring, reminders, missed>>

\* reinitializeWithProvider, seen from outside: the host has no session it obeys.
Failover(h) ==
    /\ "failovers" \in Env
    /\ host[h].at = "live"
    /\ host' = [host EXCEPT ![h].at = "failover"]
    /\ UNCHANGED <<server, row, registry, inbox, restoring, reminders, told, missed>>

FailedOver(h) ==
    /\ host[h].at = "failover"
    /\ host' = [host EXCEPT ![h].at = "live"]
    /\ UNCHANGED <<server, row, registry, inbox, restoring, reminders, told, missed>>

\* agent_end: what was delivered is answered.
Answer(h) ==
    /\ host[h].at = "live"
    /\ h \in inbox
    /\ inbox' = inbox \ {h}
    /\ UNCHANGED <<server, row, registry, host, restoring, reminders, told, missed>>

-----------------------------------------------------------------------------
(* Tools *)

\* spawn_agent and the spawner: the row is there before the host.
Spawn(c, a) ==
    /\ server # "down" /\ Room
    /\ MayManage(c, a)
    /\ row[a] = "none"
    /\ row' = [row EXCEPT ![a] = "active"]
    /\ Initialize(a, "spawn")
    /\ UNCHANGED <<server, inbox, restoring, reminders, told, missed>>

\* resurrect_agent: the row is active before initialize() is awaited, so nobody else
\* resurrects the agent meanwhile.
Resurrect(c, a) ==
    /\ server # "down" /\ Room
    /\ MayManage(c, a)
    /\ row[a] = "archived"
    /\ row' = [row EXCEPT ![a] = "active"]
    /\ told' = told \ {a}
    /\ Initialize(a, "resurrect")
    /\ UNCHANGED <<server, inbox, restoring, reminders, missed>>

\* Fault: the terminated agent stays in the registry.
UnregisteredNever(a) == registry

Unregistered(a) == [registry EXCEPT ![a] = NoHost]

\* Fault: looked up after it was unregistered, so never aborted.
AbortedNever(a) == host

\* abort() rejects what was delivered and stops a host that has its session; a
\* failing over one goes on. A stopped host that is not registered is garbage.
Aborted(a) ==
    LET h == registry[a]
    IN  IF host[h].at = "failover" THEN host
        ELSE IF Unregistered(a)[a] = h THEN [host EXCEPT ![h].at = "stopped"]
        ELSE [host EXCEPT ![h] = Unused]

\* terminate_agent, of an active or an archived agent. Nothing here reaches a
\* host that is not registered yet, nor the list of the restore.
Terminate(c, a) ==
    /\ server # "down"
    /\ MayManage(c, a)
    /\ c # a
    /\ row[a] # "none"
    /\ row' = [row EXCEPT ![a] = "archived"]
    /\ missed' = IF \/ \E h \in HostsOf(a) : host[h].at \in {"initializing", "failover"}
                    \/ \E i \in 1..Len(restoring) : restoring[i] = a
                 THEN missed \cup {a} ELSE missed
    /\ IF registry[a] = NoHost
       THEN UNCHANGED <<registry, host, inbox>>
       ELSE /\ host' = Aborted(a)
            /\ inbox' = inbox \ {registry[a]}
            /\ registry' = Unregistered(a)
    /\ UNCHANGED <<server, restoring, reminders, told>>

\* message_agent: to the registered host, or the caller gets an error.
Message(c, a) ==
    /\ server # "down"
    /\ c # a
    /\ registry[a] # NoHost
    /\ inbox' = inbox \cup {registry[a]}
    /\ UNCHANGED <<server, row, registry, host, restoring, reminders, told, missed>>

-----------------------------------------------------------------------------
(* Reminders *)

\* set_reminder. Bound: the numbers, which stand for the limit of ten as well.
SetReminder(a, r) ==
    /\ "reminders" \in Env
    /\ reminders[r] = Nobody
    /\ reminders' = [reminders EXCEPT ![r] = a]
    /\ UNCHANGED <<server, row, registry, host, inbox, restoring, told, missed>>

\* cancel_reminder: one's own.
CancelReminder(a, r) ==
    /\ reminders[r] = a
    /\ reminders' = [reminders EXCEPT ![r] = Nobody]
    /\ UNCHANGED <<server, row, registry, host, inbox, restoring, told, missed>>

\* ReminderManager.fire: to the host registered now, dropped if there is none.
FireReminder(r) ==
    LET a == reminders[r]
    IN  /\ a # Nobody
        /\ reminders' = [reminders EXCEPT ![r] = Nobody]
        /\ inbox' = IF registry[a] = NoHost THEN inbox ELSE inbox \cup {registry[a]}
        /\ UNCHANGED <<server, row, registry, host, restoring, told, missed>>

-----------------------------------------------------------------------------
(* Server *)

\* The rows a query returns, ORDER BY id.
ById(S) == {list \in [1..Cardinality(S) -> S] : \A i, j \in DOMAIN list : i < j => list[i] < list[j]}

\* start(), from the point where the Guide has its session: the rows are read once.
Start ==
    /\ server = "down"
    /\ server' = "restoring"
    /\ restoring' \in ById({a \in Agents : row[a] = "active"})
    /\ UNCHANGED <<row, registry, host, inbox, reminders, told, missed>>

RestoreAwaits == \E h \in Hosts : Starting(h) /\ host[h].why = "restore"

\* Fault: an agent is put back to be tried again.
RemainingRetried(list) == Append(Tail(list), Head(list))

Remaining(list) == Tail(list)

\* One after the other; a failure does not end the loop.
RestoreNext ==
    /\ server = "restoring" /\ ~RestoreAwaits /\ restoring # <<>>
    /\ Free # {}
    /\ restoring' = Remaining(restoring)
    /\ Initialize(Head(restoring), "restore")
    /\ UNCHANGED <<server, row, inbox, reminders, told, missed>>

RestoreDone ==
    /\ server = "restoring" /\ ~RestoreAwaits /\ restoring = <<>>
    /\ server' = "up"
    /\ UNCHANGED <<row, registry, host, inbox, restoring, reminders, told, missed>>

\* stop() or a crash: the rows are what is left.
Stop ==
    /\ "stops" \in Env
    /\ server # "down"
    /\ server' = "down"
    /\ registry' = [a \in Agents |-> NoHost]
    /\ host' = [h \in Hosts |-> Unused]
    /\ inbox' = {}
    /\ restoring' = <<>>
    /\ reminders' = [r \in Reminders |-> Nobody]
    /\ told' = {}
    /\ missed' = {}
    /\ UNCHANGED row

Tools ==
    \E c \in Callers, a \in Agents :
        Spawn(c, a) \/ Resurrect(c, a) \/ Terminate(c, a) \/ Message(c, a)

Next ==
    \/ Tools
    \/ \E h \in Hosts :
        Initialized(h) \/ InitializeFails(h) \/ Failover(h) \/ FailedOver(h) \/ Answer(h)
    \/ \E a \in Callers \ {Guide}, r \in Reminders : SetReminder(a, r) \/ CancelReminder(a, r)
    \/ \E r \in Reminders : FireReminder(r)
    \/ Start \/ RestoreNext \/ RestoreDone \/ Stop

\* initialize() settles and the loop of the restore goes on.
Fairness ==
    /\ \A h \in Hosts : WF_vars(Initialized(h) \/ InitializeFails(h))
    /\ WF_vars(RestoreNext)
    /\ WF_vars(RestoreDone)

Spec == Init /\ [][Next]_vars /\ Fairness

-----------------------------------------------------------------------------
(* Properties *)

\* Type invariant.
TypeOK ==
    /\ server \in {"down", "restoring", "up"}
    /\ row \in [Agents -> {"none", "active", "archived"}]
    /\ registry \in [Agents -> Hosts \cup {NoHost}]
    /\ host \in [Hosts -> [of : Agents \cup {Nobody},
                           at : {"unused", "initializing", "live", "failover", "stopped"},
                           why : {"none", "spawn", "resurrect", "restore"}]]
    /\ inbox \subseteq Hosts
    /\ restoring \in Seq(Agents)
    /\ reminders \in [Reminders -> Agents \cup {Nobody}]
    /\ told \subseteq Agents
    /\ missed \subseteq Agents

\* Two AgentHosts of one agent would append to the same session file and answer
\* in its name: whatever the order of spawn, terminate, resurrect and restore,
\* an agent has at most one host that runs or starts, unless a terminate came
\* while a host was starting, failing over or still listed for the restore. And
\* without exception what the registry gives to message_agent and to a reminder
\* is a host of that agent which is initialized and was not aborted.
OneHost ==
    /\ \A a \in Agents : registry[a] # NoHost => host[registry[a]].of = a /\ Runs(registry[a])
    /\ \A a \in Agents \ missed :
        \A g, h \in HostsOf(a) : (Runs(g) \/ Starting(g)) /\ (Runs(h) \/ Starting(h)) => g = h

\* A terminated agent does not run (terminate_agent): with the same exception,
\* an archived row has no registered host and none that runs.
ArchivedIsOut ==
    \A a \in Agents \ missed :
        row[a] = "archived" => registry[a] = NoHost /\ \A h \in HostsOf(a) : ~Runs(h)

\* An agent that is active in app.db and has no host is being started, or its
\* failed start was reported to the caller or to the Guide.
NoSilentOrphan ==
    \A a \in Agents \ missed :
        server # "down" /\ row[a] = "active" /\ registry[a] = NoHost =>
            \/ \E h \in HostsOf(a) : Starting(h)
            \/ \E i \in 1..Len(restoring) : restoring[i] = a
            \/ a \in told

\* start() gets past the restore, whatever fails in it and whatever the Guide
\* does meanwhile: the scheduler and the port wait for it.
RestoreEnds == (server = "restoring") ~> (server # "restoring")

\* What terminate_agent promises without the exception: violated when it comes
\* while initialize() is awaited (see the README).
TerminatedStaysOut == \A a \in Agents : row[a] = "archived" => registry[a] = NoHost
=============================================================================
