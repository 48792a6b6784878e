------------------------------ MODULE ChatSync ------------------------------
(***************************************************************************)
(* The chat of one agent as its browser tabs see it: history-capture turns *)
(* the events of a turn into rows of the agent's chat cache, a             *)
(* WebSocketHandler per connection forwards rows and stream events, and    *)
(* the store of each tab merges snapshots, rows and its own optimistic     *)
(* inserts into what is shown.                                             *)
(*                                                                         *)
(* The agent is not the Guide: a connection is subscribed to it by         *)
(* switch_agent. Text, thinking and tool calls of a turn are one draft,    *)
(* shown or not; the indicator of a compaction is left out. A connection   *)
(* is a pair of FIFO channels that are lost when it closes.                *)
(***************************************************************************)
EXTENDS Integers, Sequences, FiniteSets

CONSTANTS
    Tabs,         \* browser tabs that show the agent
    Rows,         \* numbers for chat rows: how many are ever made
    Keep,         \* max_history_messages, the size of the chat cache
    MaxInFlight,  \* bound: no event is emitted to a channel this long
    Env           \* what may happen, a subset of AllEvents

AllEvents == {"drops",        \* connections close and are made again
              "revisits",     \* the user looks at another agent and comes back
              "replaced",     \* the agent is terminated and resurrected
              "rejects"}      \* prompt() may reject: the host is reinitializing

ASSUME ChatAssumption ==
    /\ IsFiniteSet(Tabs)
    /\ Rows \subseteq Nat \ {0}
    /\ Keep \in Nat \ {0}
    /\ MaxInFlight \in Nat \ {0}
    /\ Env \subseteq AllEvents

VARIABLES
    made,       \* how many rows have been given a number
    cache,      \* the chat cache: rows, oldest first
    turn,       \* the agent's turn, as its events tell of it
    host,       \* the AgentHost: its number, and whether it is registered
    subscribed, \* the host each connection's handler listens to, 0 if none
    down,       \* messages on their way to each tab
    up,         \* messages on their way from each tab
    tab,        \* the store of each tab
    own,        \* plain messages of each tab, which it may insert at once
    witness     \* tabs that have been sent the draft from its beginning

server == <<made, cache, turn, host>>
vars   == <<server, subscribed, down, up, tab, own, witness>>

Row(id, by) == [id |-> id, by |-> by]

\* Who makes rows: a followUp row completes a tool call of a flushed turn.
Authors == {"user", "assistant", "followUp", "system"}

Idle == [on |-> FALSE, partial |-> FALSE, tool |-> "none"]

Fresh == [messages |-> <<>>, draft |-> FALSE, streaming |-> FALSE, waiting |-> FALSE]

\* Every tab has just connected and asked for the agent.
Init ==
    /\ made = 0
    /\ cache = <<>>
    /\ turn = Idle
    /\ host = [n |-> 1, alive |-> TRUE]
    /\ subscribed = [c \in Tabs |-> 0]
    /\ down = [c \in Tabs |-> <<>>]
    /\ up = [c \in Tabs |-> <<[type |-> "switch"]>>]
    /\ tab = [c \in Tabs |-> Fresh]
    /\ own = [c \in Tabs |-> {}]
    /\ witness = {}

-----------------------------------------------------------------------------
(* Server: rows and events *)

Listening == {c \in Tabs : subscribed[c] = host.n}

Connected(c) == subscribed[c] # -1

Added(row) == [type |-> "added", row |-> row]
Event(name) == [type |-> name]

\* MessageHistory.push, for each row: append, keep the newest.
Pushed(rows) ==
    LET all == cache \o rows
    IN  SubSeq(all, IF Len(all) > Keep THEN Len(all) - Keep + 1 ELSE 1, Len(all))

\* What the handlers of all listening connections send.
Sent(messages) ==
    [c \in Tabs |-> IF c \in Listening THEN down[c] \o messages ELSE down[c]]

Emit(messages) ==
    /\ \A c \in Listening : Len(down[c]) < MaxInFlight
    /\ down' = Sent(messages)

Alive == host.alive

CanMake(n) == made + n \in Rows

\* message_update, or a tool starts: there is something in flight to show.
Stream ==
    /\ Alive /\ turn.on
    /\ turn' = [turn EXCEPT !.partial = TRUE]
    /\ witness' = IF turn.partial THEN witness ELSE Listening
    /\ Emit(<<Event("chunk")>>)
    /\ UNCHANGED <<made, cache, host, subscribed, up, tab, own>>

\* tool_execution_start; one tool at a time.
ToolStart ==
    /\ Alive /\ turn.on /\ turn.tool = "none"
    /\ turn' = [turn EXCEPT !.partial = TRUE, !.tool = "running"]
    /\ witness' = IF turn.partial THEN witness ELSE Listening
    /\ Emit(<<Event("tool")>>)
    /\ UNCHANGED <<made, cache, host, subscribed, up, tab, own>>

\* Fault: the row of a flushed tool looks like the end of a turn.
FollowUpPlain == "assistant"

FollowUp == "followUp"

\* tool_execution_end: into the turn, or a row of its own if it was flushed.
ToolEnd ==
    /\ Alive /\ turn.tool # "none"
    /\ turn' = [turn EXCEPT !.tool = "none"]
    /\ IF turn.tool = "running"
       THEN UNCHANGED <<made, cache, down>>
       ELSE /\ CanMake(1)
            /\ made' = made + 1
            /\ cache' = Pushed(<<Row(made + 1, FollowUp)>>)
            /\ Emit(<<Added(Row(made + 1, FollowUp))>>)
    /\ UNCHANGED <<host, subscribed, up, tab, own, witness>>

\* commitAccumulatedTurn: nothing, or the assistant's row.
Committed == IF turn.partial THEN <<Row(made + 1, "assistant")>> ELSE <<>>

AfterCommit ==
    [turn EXCEPT !.partial = FALSE, !.tool = IF @ = "running" THEN "flushed" ELSE @]

\* message_end; a turn that failed adds the error as a row of the system.
MessageEnd(failed) ==
    LET error == IF failed THEN <<Row(made + Len(Committed) + 1, "system")>> ELSE <<>>
        rows  == Committed \o error
    IN  /\ Alive /\ turn.on
        /\ rows # <<>>
        /\ CanMake(Len(rows))
        /\ made' = made + Len(rows)
        /\ cache' = Pushed(rows)
        /\ turn' = AfterCommit
        /\ Emit([i \in 1..Len(rows) |-> Added(rows[i])] \o <<Event("end")>>)
        /\ UNCHANGED <<host, subscribed, up, tab, own, witness>>

\* agent_end, when no message and no tool is left open.
AgentEnd ==
    /\ Alive /\ turn.on /\ ~turn.partial /\ turn.tool = "none"
    /\ turn' = [turn EXCEPT !.on = FALSE]
    /\ Emit(<<Event("ready")>>)
    /\ UNCHANGED <<made, cache, host, subscribed, up, tab, own, witness>>

\* A delivery, a notice of a failover or a compaction: a row that no tab asked
\* for; a delivery may start a turn.
SystemRow ==
    /\ Alive /\ CanMake(1)
    /\ made' = made + 1
    /\ cache' = Pushed(<<Row(made + 1, "system")>>)
    /\ turn' \in {turn, [turn EXCEPT !.on = TRUE]}
    /\ Emit(<<Added(Row(made + 1, "system"))>>)
    /\ UNCHANGED <<host, subscribed, up, tab, own, witness>>

\* terminate_agent: the handlers stay subscribed to the host that is gone.
Terminate ==
    /\ "replaced" \in Env
    /\ Alive
    /\ host' = [host EXCEPT !.alive = FALSE]
    /\ turn' = Idle
    /\ witness' = {}
    /\ UNCHANGED <<made, cache, subscribed, down, up, tab, own>>

\* resurrect_agent: a new host, which loads the cache from its file.
\* Bound: once.
Resurrect ==
    /\ ~Alive /\ host.n = 1
    /\ host' = [n |-> host.n + 1, alive |-> TRUE]
    /\ UNCHANGED <<made, cache, turn, subscribed, down, up, tab, own, witness>>

-----------------------------------------------------------------------------
(* Server: messages from the tabs *)

Reply(c, messages) == down' = [down EXCEPT ![c] = @ \o messages]

Snapshot == [type |-> "history", rows |-> cache]

\* subscribeToAgent: an agent that is subscribed already stays as it is.
Subscription(c) == IF subscribed[c] = 0 THEN host.n ELSE subscribed[c]

\* switch_agent.
ServeSwitch(c) ==
    IF ~Alive
    THEN /\ Reply(c, <<Event("error")>>)
         /\ UNCHANGED <<server, subscribed>>
    ELSE /\ subscribed' = [subscribed EXCEPT ![c] = Subscription(c)]
         /\ Reply(c, <<Snapshot>> \o IF turn.on THEN <<>> ELSE <<Event("ready")>>)
         /\ UNCHANGED server

\* flushPartialTurn, which only a steering message asks for.
Flushed(steering) == IF steering THEN Committed ELSE <<>>

\* user_message and steering_message: rows, then prompt().
ServeMessage(c, message, accepted) ==
    LET first == Flushed(message.type = "steer")
        rows  == first \o <<Row(message.id, "user")>>
        added == [i \in 1..Len(rows) |-> Added(rows[i])]
    IN  IF ~Alive
        THEN /\ Reply(c, <<Event("error")>>)
             /\ UNCHANGED <<server, subscribed>>
        ELSE /\ Len(first) = 0 \/ CanMake(1)
             /\ made' = made + Len(first)
             /\ cache' = Pushed(rows)
             /\ turn' = [(IF first = <<>> THEN turn ELSE AfterCommit)
                            EXCEPT !.on = @ \/ accepted]
             /\ down' = [Sent(added) EXCEPT
                            ![c] = @ \o IF accepted THEN <<>> ELSE <<Event("error")>>]
             /\ UNCHANGED <<host, subscribed>>

\* The same for a message from a tab that is not one of Tabs.
ServeElsewhere(steering) ==
    LET first == Flushed(steering)
        rows  == first \o <<Row(made + Len(first) + 1, "user")>>
    IN  /\ Alive /\ CanMake(Len(rows))
        /\ made' = made + Len(rows)
        /\ cache' = Pushed(rows)
        /\ turn' \in {[(IF first = <<>> THEN turn ELSE AfterCommit) EXCEPT !.on = @ \/ accepted] :
                       accepted \in {TRUE, "rejects" \notin Env}}
        /\ Emit([i \in 1..Len(rows) |-> Added(rows[i])])
        /\ UNCHANGED <<host, subscribed, up, tab, own, witness>>

\* handleClientMessage.
Serve(c) ==
    /\ up[c] # <<>>
    /\ \A d \in Tabs : Len(down[d]) < MaxInFlight
    /\ up' = [up EXCEPT ![c] = Tail(@)]
    /\ LET message == Head(up[c])
       IN  IF message.type = "switch" THEN ServeSwitch(c)
           ELSE \E accepted \in {TRUE, "rejects" \notin Env} :
                    ServeMessage(c, message, accepted)
    /\ UNCHANGED <<tab, own, witness>>

-----------------------------------------------------------------------------
(* Tabs *)

Ids(rows) == {rows[i].id : i \in 1..Len(rows)}

\* Fault: a row that is there already is appended again.
WithRowTwice(messages, row) == Append(messages, row)

\* appendMessage: replace by id, or append.
WithRow(messages, row) ==
    IF row.id \in Ids(messages)
    THEN [i \in 1..Len(messages) |-> IF messages[i].id = row.id THEN row ELSE messages[i]]
    ELSE Append(messages, row)

\* The messages with another id than these, in their order.
Without(messages, ids) ==
    LET others[n \in 0..Len(messages)] ==
            IF n = 0 THEN <<>>
            ELSE IF messages[n].id \in ids THEN others[n - 1]
            ELSE Append(others[n - 1], messages[n])
    IN  others[Len(messages)]

\* loadHistory: the snapshot, then what it does not have.
Merged(messages, snapshot) == snapshot \o Without(messages, Ids(snapshot))

InProgress(t) == t.streaming \/ t.waiting \/ t.draft

\* The flags stay if anything is in progress.
WithHistory(t, snapshot) ==
    IF InProgress(t) THEN [t EXCEPT !.messages = Merged(@, snapshot)]
    ELSE [Fresh EXCEPT !.messages = Merged(t.messages, snapshot)]

\* A row from the server: the assistant's ends the draft, a user's starts a wait.
WithAdded(t, row) ==
    [t EXCEPT
        !.messages = WithRow(@, row),
        !.draft    = @ /\ row.by # "assistant",
        !.waiting  = @ \/ (/\ row.by = "user"
                           /\ row.id \notin Ids(t.messages)
                           /\ ~t.streaming)]

\* Fault: ready_for_input ends the stream, not the wait.
ReadyStreamOnly(t) == [t EXCEPT !.streaming = FALSE]

Ready(t) == [t EXCEPT !.streaming = FALSE, !.waiting = FALSE]

\* onmessage: what a message does to the store.
Shown(t, message) ==
    CASE message.type = "chunk"      -> [t EXCEPT !.draft = TRUE, !.streaming = TRUE, !.waiting = FALSE]
      [] message.type = "tool"       -> [t EXCEPT !.draft = TRUE, !.streaming = TRUE, !.waiting = FALSE]
      [] message.type = "end"        -> [t EXCEPT !.draft = FALSE]
      [] message.type = "ready"      -> Ready(t)
      [] message.type = "error"      -> [t EXCEPT !.waiting = FALSE]
      [] message.type = "history"    -> WithHistory(t, message.rows)
      [] message.type = "added"      -> WithAdded(t, message.row)

Receive(c) ==
    /\ down[c] # <<>>
    /\ down' = [down EXCEPT ![c] = Tail(@)]
    /\ tab' = [tab EXCEPT ![c] = Shown(tab[c], Head(down[c]))]
    /\ UNCHANGED <<server, subscribed, up, own, witness>>

\* Fault: a steering message is inserted as well.
WithOwnAlways(t, id) == [t EXCEPT !.messages = Append(@, Row(id, "user")), !.waiting = TRUE]

\* addUserMessage: inserted at once, but not into a stream.
WithOwn(t, id) ==
    IF t.streaming THEN t
    ELSE [t EXCEPT !.messages = Append(@, Row(id, "user")), !.waiting = TRUE]

\* The user sends a message: steering if the tab shows a stream.
\* Bound: one message on its way.
Submit(c) ==
    /\ Connected(c) /\ up[c] = <<>> /\ CanMake(1)
    /\ made' = made + 1
    /\ up' = [up EXCEPT ![c] =
                 <<[type |-> IF tab[c].streaming THEN "steer" ELSE "user", id |-> made + 1]>>]
    /\ tab' = [tab EXCEPT ![c] = WithOwn(@, made + 1)]
    /\ own' = [own EXCEPT ![c] = IF tab[c].streaming THEN @ ELSE @ \cup {made + 1}]
    /\ UNCHANGED <<cache, turn, host, subscribed, down, witness>>

\* The user looks at another agent and comes back: switch_agent.
Revisit(c) ==
    /\ "revisits" \in Env
    /\ Connected(c) /\ up[c] = <<>>
    /\ up' = [up EXCEPT ![c] = <<[type |-> "switch"]>>]
    /\ UNCHANGED <<server, subscribed, down, tab, own, witness>>

\* onclose and cleanup; clearAllStreamingState.
Drop(c) ==
    /\ "drops" \in Env
    /\ Connected(c)
    /\ subscribed' = [subscribed EXCEPT ![c] = -1]
    /\ down' = [down EXCEPT ![c] = <<>>]
    /\ up' = [up EXCEPT ![c] = <<>>]
    /\ tab' = [tab EXCEPT ![c] = [Fresh EXCEPT !.messages = tab[c].messages]]
    /\ witness' = witness \ {c}
    /\ UNCHANGED <<server, own>>

\* onopen: a new handler, and switch_agent for the agent shown.
Connect(c) ==
    /\ ~Connected(c)
    /\ subscribed' = [subscribed EXCEPT ![c] = 0]
    /\ up' = [up EXCEPT ![c] = <<[type |-> "switch"]>>]
    /\ UNCHANGED <<server, down, tab, own, witness>>

Next ==
    \/ Stream \/ ToolStart \/ ToolEnd \/ AgentEnd \/ SystemRow
    \/ \E failed \in BOOLEAN : MessageEnd(failed)
    \/ \E steering \in BOOLEAN : ServeElsewhere(steering)
    \/ Terminate \/ Resurrect
    \/ \E c \in Tabs :
        Serve(c) \/ Receive(c) \/ Submit(c) \/ Revisit(c) \/ Drop(c) \/ Connect(c)

Spec == Init /\ [][Next]_vars

-----------------------------------------------------------------------------
(* Properties *)

TypeOK ==
    /\ made \in {0} \cup Rows
    /\ Len(cache) <= Keep
    /\ \A i \in 1..Len(cache) : cache[i] \in [id : Rows, by : Authors]
    /\ turn \in [on : BOOLEAN, partial : BOOLEAN, tool : {"none", "running", "flushed"}]
    /\ subscribed \in [Tabs -> {-1, 0, 1, 2}]
    /\ own \in [Tabs -> SUBSET Rows]
    /\ witness \subseteq Tabs

\* A tab that listens to the host and to which nothing is on its way.
Settled(c) == Alive /\ subscribed[c] = host.n /\ down[c] = <<>> /\ up[c] = <<>>

Places(c, id) == {i \in 1..Len(tab[c].messages) : tab[c].messages[i].id = id}

\* A settled tab shows every row of the cache, and shows it once: no row falls
\* between the snapshot and the subscription, none is shown twice because it came
\* with both or was inserted by the tab itself (handler.ts, chat.ts).
NothingMissing ==
    \A c \in Tabs : Settled(c) =>
        \A i \in 1..Len(cache) : Cardinality(Places(c, cache[i].id)) = 1

\* But for the plain messages of the tab itself, its rows are in the order of the
\* cache, after any number of snapshots: a partial turn stands before the message
\* that steered it, in every tab.
OrderKept ==
    \A c \in Tabs : Settled(c) =>
        \A i, j \in 1..Len(cache) :
            i < j /\ {cache[i].id, cache[j].id} \cap own[c] = {} =>
                \A m \in Places(c, cache[i].id), n \in Places(c, cache[j].id) : m < n

\* When the agent is idle no settled tab shows a stream, a wait or a draft: the
\* stop button would stay, and the next message would be sent as steering.
IndicatorsIdle ==
    \A c \in Tabs : Settled(c) /\ ~turn.on => ~InProgress(tab[c])

\* A tab that was sent a draft from its beginning shows it as long as the turn is
\* in flight: not a snapshot, nor the late row of a flushed tool, nor another
\* user's message takes it away.
DraftKept ==
    \A c \in witness : Settled(c) /\ turn.partial => tab[c].draft

\* What the comments of handler.ts and docs/websocket-protocol.md say: the UI
\* mirrors the cache.
MirrorsCache == \A c \in Tabs : Settled(c) => tab[c].messages = cache
=============================================================================
