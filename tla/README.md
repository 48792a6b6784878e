# System2: a TLA+ verification project

System2 is a local server that runs a team of LLM agents (a Guide, a Narrator,
Conductors, Reviewers, specialists), each an `AgentHost` around one SDK session,
with a SQLite app database, cron jobs that feed the Narrator, a browser UI on a
WebSocket, and a CLI that starts and stops it. Everything server-side is one
Node.js process: code runs to completion between awaits, and what can go wrong is
the order in which awaited calls, SDK events, timers and user input resume.

Paths below are relative to the repository; `host.ts` is
`src/server/agents/host.ts`.

## 1. Inventory

| Component | State it keeps | Operations | Interacts with | What is hard, and what makes it correct |
|---|---|---|---|---|
| **AgentHost** (`agents/host.ts`) | `pendingDeliveries`, `deliverySendCount`, deferred flags and watchdogs, `session`, `isReinitializing`, `pendingPrompt`, per-turn flags | `deliverMessage`, `prompt`, `abort`, `initialize`, `handleSessionEvent`, `handlePotentialError`, `reinitializeWithProvider`, `handleContextOverflow`, `reclaimBloatedSession`, watchdogs | SDK session (events), AuthResolver, tools, jobs, WebSocket handler | awaits in the error handler against run ends, timers, aborts and new deliveries; two reinitializations at once. No promise lost, each answered; a scheduled task alone in its run; nothing sent twice; nothing stranded |
| **AuthResolver, retry, OAuth** (`agents/auth-resolver.ts`, `retry.ts`, `oauth*.ts`) | cooldowns, key index, credentials, refresh locks; shared by all hosts | `markKeyFailed`, `getActiveKey`, `getNextProvider`, `ensureFresh`, `categorizeError`, `shouldRetry`, ... | AgentHost, config file | concurrent refreshes, lazy expiry. One refresh at a time per provider; a key in cooldown is not chosen; failover ends |
| **Scheduler and narrator jobs** (`scheduler/*`) | cron jobs, `job_execution` rows, cursors in frontmatter | `safeHandler`, `trackJobExecution`, `buildAndDeliverDailySummary`, memory update, catch-up | Narrator's AgentHost, database, files | a timed-out handler goes on detached, partial delivery failures, byte budgets. A row is final once; no entry falls between two windows; a log is told all that its cursor has passed |
| **Session rotation** (`agents/session-rotation.ts`) | session JSONL files | rotate, carry over, archive, prune | `initialize()` | crash between two file operations; tool results cut from their calls. An agent goes on from its last summary or turns, in a session a provider accepts |
| **Registry and lifecycle tools** (`agents/registry.ts`, spawn, terminate, resurrect, message-agent) | registry map, agent rows | spawn, terminate, resurrect, message | server, database, AgentHost | terminate during a resurrect's `initialize()`, rollback. At most one host per agent, none for an archived one, no failed start unreported |
| **Project story** (`tools/trigger-project-story.ts`) | tasks, job row | trigger | Narrator | the log has to be brought up to date before the story is told |
| **Reminders** (`reminders/manager.ts`) | map of timers | schedule, cancel, fire, stop | registry, AgentHost | a reminder that outlives its agent |
| **Server** (`server.ts`) | hosts, sockets, timers | start, restore, catch-up, stop | all | order of restore, stale rows, catch-up; stop while handlers run |
| **App database** (`db/client.ts`, `schema.sql`) | agents, projects, tasks, artifacts, job rows | row operations, `claimTask`, `failStaleJobExecutions` | tools, jobs, HTTP API | conditional claim against unconditional transitions |
| **External databases** (`db/adapter-registry.ts`, `adapters/*`) | adapters, creations in flight | `query`, `disconnectAll` | tools, query bridge | creation and connection by concurrent queries. One adapter; no connection that nobody closes |
| **WebSocket handler** (`websocket/handler.ts`) | subscriptions, active agent | subscribe, switch, message, steer, abort | AgentHost, chat cache | snapshot against live events; a host replaced under a subscription |
| **UI state** (`ui/stores`, `ui/hooks`) | per-agent messages, streaming state, socket | reducers, reconnect | handler | reconnect, duplicated and reordered events, optimistic inserts. Each row of the cache is shown once, in order, and no indicator is left over |
| **Chat history, capture, summarizer** (`chat/*`) | bounded cache, draft turn | push, flush, summarize | AgentHost, handler | partial flush before a steering message |
| **Work tools** (bash, edit, write, database, web, git, artifact) | background processes of bash | one I/O call each | OS | output in arbitrary pieces, two timers, processes that do not stop. Whole output, every call answered |
| **CLI** (`cli/commands`, `cli/utils`) | PID file, backups, config | start, stop, status, init, config | OS processes | two starts, stale PID, orphaned server. The PID file names the server that runs |
| Knowledge, projects, skills, logger, one-shot LLM, shared types, UI components | files, tables | I/O, rendering | | no interleavings of their own |

`PROJECT.json` lists the same components, and under `hazards` each place in the code
that is hard to test, with the properties that watch it.

## 2. Modules

| Module | What it is |
|---|---|
| `AgentDelivery` | The delivery machinery of one AgentHost, in full detail |
| `DeliveryContract` | What `deliverMessage` promises its callers; `AgentDelivery` implements it in the runs `queue_healthy` and `failover` |
| `AuthResolver` | The credentials all hosts share, how an error is classified, and how a host uses them when a request fails |
| `NarratorJob` | Scheduler, job rows, daily summary, memory update, project story, catch-up and stale rows |
| `AgentLifecycle` | Agent rows, registry and hosts: spawn, terminate, resurrect, message, reminders, restore and stop |
| `ChatSync` | History capture, chat cache, WebSocket connections and the chat stores of browser tabs |
| `SessionRotation` | Pure: which entries of a session file a rotation keeps |
| `ServerProcesses` | `system2 start` and `stop`, the PID file, the server processes and the session files they rotate, extend and lose (EXTENDS `SessionRotation`) |
| `DbAdapters` | The adapter of one external database under concurrent queries |
| `ShellCommand` | One call of the bash tool |
| `MC...` | Small instances for TLC, one per module with a run |
| `AgentDelivery_proofs`, `AgentLifecycle_proofs`, `AuthResolver_proofs`, `ChatSync_proofs`, `DbAdapters_proofs`, `NarratorJob_proofs`, `ServerProcesses_proofs`, `ShellCommand_proofs` | Theorems about the module each is named for, and their proofs; that `AgentDelivery` implements `DeliveryContract` is in `AgentDelivery_proofs` |

How they compose: `NarratorJob` stands on `DeliveryContract`, which `AgentDelivery`
implements: its `queue` is the Narrator's host as a sender sees it, each delivery
answered once and at the head of the queue, or rejected. `ServerProcesses` uses
`SessionRotation` for the step every start of an agent takes. `AgentLifecycle` has the hosts
as objects that start, run, fail over and stop; `AgentDelivery` is the inside of one.

`AgentDelivery` and `AuthResolver` meet in `handlePotentialError`: the first follows what
the error handler does to the queue and takes the choice of recovery as given
(`Decisions`); the second follows that choice and leaves the queue out.

### How AgentDelivery corresponds to host.ts

An action is the code from one await, SDK event or timer callback to the next.

| Code | Actions |
|---|---|
| `deliverMessage` | `DeliverRejected` (the early rejections), `DeliverMessage` (queue, gate `Gated`, count, watchdog), `ReloadEnds` (reload, `sendCustomMessage`, its catch) |
| `replayPendingDeliveries` | `ReplayOn`, inside the actions that call it; rejected sends end in `SendFails` |
| `prompt`, `abort` | `UserPrompt`, `PromptReloadEnds`, `Abort` |
| `handleDeferTimeout`, `handleDispatchTimeout` | `DeferTimeout`, `DispatchTimeout` |
| `handleSessionEvent` | `TurnStarts`, `ModelOutput`, `RunEnds` (agent_end), `RunFails` (message_end with an error, then agent_end) |
| `handlePotentialError` | `RunFails` up to the first await, `RetryWakes`, `RetryPrompted`, `Awaited` |
| `reinitializeWithProvider` | `StartReinit` (inside its callers), `FreshEnds`, `ReinitSucceeds`, `ReinitFails`, `ReinitPrompted` |
| `handleContextOverflow`, `replayAfterContextOverflow` | `CompactEnds`, `Recovered` |
| `resetSessionToHeader` and the `initialize()` behind it, `reclaimBloatedSession` | `ResetSession` (inside `RunEnds`, `RunFails`, `Reclaim`), `ResetSucceeds`, `ResetFails`, `Reclaim` |

`status` stands for the promise of each delivery, `run[s][m]` for how often the SDK
has message `m` in the current run of session `s`, `processed` for the deliveries of
runs that ended well. A session that nobody subscribes to and nobody sends to is
forgotten and its number reused.

Abstractions:

- What recovery an error gets (`retry.ts`, `AuthResolver`, budgets of retries) is a
  choice from `Decisions`. `await` stands for the paths that await something (forced
  OAuth refresh, compaction for the next provider) before they fail over or give up.
- Content is abstracted to what the code asks of it: scheduled task or not, too large
  or not.
- The sleep and the reload behind it are one wait in a retry; nothing in between
  changes the host.
- The message_end of an error and the agent_end that follows are one action: the SDK
  emits them back to back, and the handler's first await lets the second in.
- Time is not counted. A watchdog fires when its entry's timer is armed and either
  a stream may be lost (`lostStream`) or nothing is under way any more.
- A run that is aborted may still emit an agent_end: the prompt marker is left in it.
- Left out: the busy flag and context percentages, logging, pruning, chat-cache
  writes, the early return of `resetSessionToHeader` when the session file is gone,
  and the file work of `initialize()`.

### How AuthResolver corresponds to the code

| Code | Definitions and actions |
|---|---|
| `isKeyUnavailable`, which deletes an entry that is over | `Available`, `Purge` (with `Look(...).seen`: what a search looked at) |
| `getActiveCredential`, `getNextProvider`; `getActiveKey` | `NextCred`; `Stored`; `Pointed` is their write to `activeKeys` |
| `createAuthStorage` | `StoragePurge`, `StorageKeys`; what it holds for a host's provider goes to `registry` or `session` |
| `markKeyFailed`, `clearTransientCooldowns` | `Marked`, `WithoutTransient` |
| `ensureFresh`, `doRefresh` | `LoopStops`, `Wakes`, `LoopEnds`, `RefreshEnds` |
| `handlePotentialError` | `RequestFails` up to its first await, with `Failover` and `MarkKeyFailed`; `RefreshReturns`, `CompactionEnds` |
| `reinitializeWithProvider`, `initialize` | `StartReinit` (inside its callers), `ReinitReturns`, `ReloadEnds`, `InitReturns` |
| `agent_end` of a good run | `RunSucceeds` |
| time | `CooldownEnds`, `TokenAges` |

`ready` is the microtask queue as far as `ensureFresh` is concerned: while it is not
empty no other event happens, and its head continues. `waiting` keeps the callers that
await another's lock in the order they came, which is the order they resume in.
`session[a]` remembers the credential the present SDK session of host `a` was given, `marked` the `markKeyFailed` of the last step; no guard reads them.

Abstractions:

- A cooldown is an entry with its reason and whether its time is over. How long it runs
  is left to `CooldownEnds`, in any order.
- A credential's content is a version number; a refresh that succeeds raises it. Saving
  it to disk happens within the same step: the callback writes synchronously.
- Which error occurs and whether its retries are used up are choices. `Category` is
  what `categorizeError` makes of a status and the words of a message, and `Kinds` what
  the handler tells apart here; the step-down after a 403 or 404 and the overflow
  recovery (other than after a 400) belong to `AgentDelivery`'s choices.
- A host handles one error at a time; `initialize()` succeeds; every provider has a
  model, so that `initialize()` keeps the provider it is given.
- Hosts exist from the start. `getStatus`, which the constructor logs, is left out.
- `KeysFrom` says where the SDK takes a session's key from. It is given both an
  `AuthStorage` and a `ModelRegistry`; the runs and the theorem take the first, and
  section 5 says what happens with the second.

### How NarratorJob corresponds to scheduler, jobs and server

| Code | Definitions and actions |
|---|---|
| `Scheduler.schedule`, `safeHandler`, `isNetworkAvailable` | `CronTick`, `NetworkDown` |
| `trackJobExecution` | `StartJob` (inside its callers), `RaceEnds` with `FinalStatuses`, `TimerFires` |
| `buildAndDeliverDailySummary` | `BuildSummary` (files, window, collection, `Send`), then `Answered` for each delivery, then `WriteCursor` for each file of `CursorFiles` |
| `resolveDailySummaryTimestamp`, `readFrontmatterField` | `Resolved`, `MostRecent`, `Absent`, `Blank`; `LastRun` is the start of the window |
| `collect...`, `truncateOldestToFit`, `truncateDbChangesToFit` | `Activity`, `ProjectChanges`, `OtherChanges`; `Newest`, `KeptChanges`, `Fitted` |
| `buildAndDeliverMemoryUpdate` | `BuildMemory` |
| `trigger_project_story` | `TriggerStory`: `FinalLog`, then `StoryData` |
| `start`, `failStaleJobExecutions`, `checkNarratorCatchUp` | `AgentsRestored`, `JobsRegistered`, `CatchUpSummary`, `CatchUpMemory` |
| the Narrator's host (`DeliveryContract`) | `NarratorProcesses`, `NarratorRejects` |
| time, agents, the end of the process | `TimePasses`, `AgentWorks`, `ConductorArchived`, `ProcessEnds` |

A row and the handler it is about are apart, because the code lets them part: `row[j]` may
be failed while `job[j]` goes on. `told` is history: what the Narrator has processed, for
which target, and whether it was shown or only counted in the note of a truncation.

Abstractions: an entry is whose it is, what it is (session or table) and when. Entries and
rows have size 1, headers 0: `Budget` is what is left beyond them. The final log and the
data of a story are not truncated here. Cursor files are written in an order without an
await, so only `ProcessEnds` comes between two of them.

### How AgentLifecycle corresponds to server, registry and tools

| Code | Actions |
|---|---|
| `initializeAgentHost`, spawner and resurrector | `Initialize` (inside its callers), `Initialized`, `InitializeFails` with `AfterFailure` |
| `spawn_agent`, `resurrect_agent`, `terminate_agent`, `message_agent` | `Spawn`, `Resurrect`, `Terminate` (`Unregistered`, `Aborted`), `Message` |
| `set_reminder`, `cancel_reminder`, `ReminderManager.fire` and `stop` | `SetReminder`, `CancelReminder`, `FireReminder`, `Stop` |
| `start`, `restoreActiveAgents`, `stop` | `Start`, `RestoreNext`, `RestoreDone`, `Stop` |
| `reinitializeWithProvider`, `agent_end`, seen from outside | `Failover`, `FailedOver`, `Answer` |

`missed` is history: agents that a terminate found starting, failing over or still
listed for the restore; section 5 says what becomes of them. A delivery is whether a host
has one to answer (`inbox`), because a tool is only called in a turn. Delays of reminders
are not counted.

### How ChatSync corresponds to the chat path

| Code | Definitions and actions |
|---|---|
| `history-capture.ts` | `Stream`, `ToolStart`, `ToolEnd` (`FollowUp`), `MessageEnd` and `AgentEnd` (`Committed`, `AfterCommit`), `SystemRow`, `Flushed` |
| `MessageHistory` (`history.ts`) | `Pushed`, `Snapshot` |
| `WebSocketHandler` | `Serve` = `ServeSwitch` or `ServeMessage`; `ServeElsewhere` for the handlers of other tabs; `Subscription`, `Sent` |
| `useWebSocket.ts` | `Connect`, `Drop`, `Receive`, `Submit`, `Revisit` |
| the chat store | `WithHistory` (`Merged`), `WithAdded` (`WithRow`), `WithOwn`, `Ready`, `InProgress` |
| the agent is terminated and resurrected | `Terminate`, `Resurrect` |

Abstractions: a row is a number and an author; text, thinking and tool calls of a turn
are one draft. A connection is a pair of FIFO channels that is lost when it closes.
`witness` is history: tabs that were sent the present draft from its beginning. Left out:
the compaction indicator, context percentages, board and push messages.

### How SessionRotation and ServerProcesses correspond to the code

| Code | Definitions and actions |
|---|---|
| `rotateSessionIfNeeded`, `selectTailEntries`, `filterOrphanToolResults` | `RotatedEntries`, `SelectTailEntries`, `FilterOrphanToolResults` (`OrphanIds`, `DroppedIds`) |
| `writeRotatedFile`, `pruneArchives` | `WriteRotatedFile`, `ArchiveOldFile` with `PruneArchives` |
| `initialize`: the session manager (external) | `OpenSession`, `AppendEntry` |
| `start` | `Start` with `StartCheck`, `RemoveStalePidFile`, `Spawn`, `SavePid` |
| `stop` | `Stop`, `Gone`, `Kill`, `UnlinkPidFile`, `StopListener` |
| server: `listen`, signal handlers, `stop` | `Listen`, `Close` |
| a crash | `Crash`, in the middle of a write with `torn` |

Left out: `start --foreground` typed by hand, backup and log rotation before a spawn,
custom ports, and pids that the system uses again. A message with several tool calls is
modelled as calls one after the other, each with its result.

### How DbAdapters corresponds to the adapters

`Ask`, `Created`, `CreationFails` are the registry's `query` with its shared creation
(`CreatesOwn`). The adapters differ in when their handle is set: `OpenAtOnce` (sqlite;
pool and clickhouse, which then `Verify` or `VerifyFails` and `ClearHandle`), `OpenAwaiting`,
`Opened` and `OpenFails` (duckdb, whose callers share the opening, `Joins`; mssql and
snowflake, whose callers do not). `Run`, `Finish` and `IdleTimeout` are the same in all of
them. Each adapter's file is in the `map` of `PROJECT.json`.

### How ShellCommand corresponds to bash.ts

`Refuse`, `StartBackground`, `StartForeground` and `StartAborted` are `execute`; `Data`,
`ErrorData`, `Close`, `SpawnError` the handlers of the process; `InactivityFires`,
`TotalFires` and `Abort` its timers and its signal; `Cap` is `capOutputForInline`. `Settled`
keeps the first of `settle` and `fail`. `Write` and `Exit` are the process (external), and
`Tick` is the clock. Output is a sequence of half lines, so that a data event may end in
the middle of a line or of a heartbeat. Multi-byte characters are left out.

## 3. Runs

Every run but `adapters` says `CHECK_DEADLOCK FALSE`: a host, a server or a command really
stops when everything is answered, and the bounded clocks, rows and errors run out.

| Run | Instance | Shows |
|---|---|---|
| `queue_healthy` | 5 deliveries (2 scheduled, 2 chats, 1 oversized), 4 sessions, no errors; prompts, aborts, failed sends, failed resets, reclaims; resetting role | gate, prefix, no double send, answered work never runs, the flag is held; implements `DeliveryContract` |
| `failover` | 3 deliveries, one error, failover or giving up, prompts | the queue survives a failover, tasks still alone, the session is heard; implements `DeliveryContract` |
| `retry` | 3 deliveries, one error, retry or giving up, prompts; resetting role | nothing stranded, every delivery answered |
| `recovery` | 2 deliveries, one error, every recovery, prompts, aborts, failed sends and reinitializations, lost streams | types, no promise lost, a live watchdog on every unanswered delivery |
| `credentials` | 2 hosts, a provider with a subscription, one with two keys, 4 errors | own key blamed, failed key benched, no cooldown restarted, no rotated-out token sent, every failure dealt with |
| `narrator` | a project and the Guide, 2 daily summaries, 2 entries or rows, clock to 3 over two days, budgets of 1; timeouts, stops, rejected deliveries | nothing falls between two windows or out of a truncated delivery unnoted, a project's log is told all that its cursor has passed, a final row stays final |
| `narrator_story` | a project and the Guide, 2 jobs, clock to 2; timeouts, offline ticks, an archived Conductor, memory updates, a story | the story covers the project, rows settle |
| `lifecycle` | a Conductor and a worker, 3 host objects, a reminder; failures, failovers, stops | one host per agent, an archived one is out, no silent orphan, the restore ends |
| `chat` | a tab, 3 rows, a cache of 2, 3 messages in flight; lost connections, another agent looked at, a replaced agent | every cached row shown once and in order, indicators idle, drafts kept |
| `processes` | 3 pids, a shell, 8 entries, threshold 4, tail 3, 1 archive; crashes and slow stops | the server is the one in the PID file, the session goes on from its summary or turns, no orphaned result |
| `adapters` | 4 queries, 2 adapter objects, 4 connections; sqlite, pools, clickhouse, duckdb; failures | one adapter, nothing left open |
| `shell` | 3 lines, an error chunk, data events of up to 3 halves, buffer 4, inline cap 3; aborts, failed spawns, full disk | output whole, every call answered |

### Bounds, and why they are enough

- Two scheduled tasks and a chat are the smallest queue in which a gate, the FIFO rule
  and the "alone" rule can each be the only one that holds an entry back; five
  deliveries add a second chat (two in one run) and an oversized one.
- `ErrorIds` bounds the errors. One error meets every order of its handler's awaits with
  everything else; two errors are needed only for a handler that meets another.
- `Sessions` is reused, so it bounds how many sessions are alive at once, not how many
  there ever are; three or four never run out within the error bound.
- `Env` names what the environment does. A run switches on what its properties are
  about and says in its cfg what it leaves out. Where a property fails once more is
  switched on, section 5 says so.
- `slowSends` off: no SDK event precedes the end of a pending reload or the
  microtask of a rejected send (section 5 says what happens when one does).

- `credentials`: two hosts are the fewest that share a key or a lock. Four errors use up
  the three credentials and fail once more, which is what it takes to report a key that
  is already benched or to reach the last resort of a 400, and let one host rotate a key
  the other still holds. `MaxToken` = 1 lets the first token come near its expiry once,
  beside the 401s that force a refresh. `ErrorKinds` leaves out a 403 and a rate limit,
  which act like kinds that are in it. A provider with a subscription and keys is left to
  the theorem.
- `narrator`: two rows are the fewest that overlap (a timed-out handler beside the next
  tick, or the catch-up of a restart beside a tick). `DayLength` = 2 puts a change of day
  between two ticks; `Budget` = 1 with two entries makes a delivery drop one.
  `narrator_story` has the events that `narrator` leaves out, on a shorter clock.
- `lifecycle`: the third host object is what an agent's second host would be.
- `chat`: three rows and a cache of two make the cache forget one; `MaxInFlight` = 3
  holds a snapshot, a row and a stream event at once. Handlers do not know of each other,
  so other tabs only matter by what they make the host do (`ServeElsewhere`).
- `processes`: eight entries are two turns with a tool call and two compactions, enough
  for two rotations, the second of a rotated file; three pids, for a server, one that
  replaces it while it is slow to stop, and one after it.
- `adapters`: with four queries one creates, one joins it, one finds an open handle, and
  one comes after the idle timeout.
- `shell`: three lines of two halves and a buffer of 4 let a text just fit and not fit, and
  every split of a heartbeat over data events occurs. `Headers` has a size that fits the
  cap and one that does not.

### Fairness

Weak fairness for the ends of the host's own awaits (reload, rejected send,
`initialize()`), because each of them settles; for the watchdogs, because
`setTimeout` fires; and for the end of a run, unless its stream may be lost. Strong
fairness for each error handler, whose step is only briefly disabled while a send is
on its way. Nothing is assumed of users, of new deliveries or of errors.

In `AuthResolver`, weak fairness for the next step of each host that is not running:
reloads, compactions and refreshes end, well or badly. `Fairness` is
`WF_vars(HostStep(a))` in a form TLC evaluates much faster: `CanStep` is its `ENABLED`
written out, and while that holds a step of `HostStep(a)` is one that moves the host
(`Moves`). Nothing is assumed of time, of errors or of good runs.

In `NarratorJob`, weak fairness for what follows a settled promise and for the timer of each
job (`TimerFires`, `WriteCursor`, `RaceEnds`, `CatchUpMemory`) and for the start of a server
that went down, which takes somebody to start it. Nothing is assumed of the
Narrator: `RowsSettle` holds even if it never answers. In `AgentLifecycle`, weak fairness for
the end of each `initialize()` and the loop that waits for it. In `ShellCommand`, for the
delivery of data and of the end of a process, for the clock and for timers that are due;
a process need not write, exit or obey SIGTERM. The other modules state no fairness and no
liveness.

## 4. What is proved

`AgentDelivery_proofs`, checked by TLAPS for every value of the constants that
satisfies `ConstantsAssumption` (the assumption says what the sets are, that
`Deliveries` is finite, and nothing else):

- `TypeCorrect`: `Spec => []TypeOK`. The types include `deliverySendCount \in Nat`, which
  five decrements must not break.
- `NoPromiseLost`: `Spec => []NoLostPromise`: an unanswered delivery is still in
  `pendingDeliveries`, with its `resolve` and `reject`. This holds even for the
  environments of section 5 in which other properties fail.

The argument: `IInv == TypeOK /\ NoLostPromise` is inductive (`InitIInv`, `NextIInv`,
one lemma per action). Types are needed for the queue lemmas: `WithoutElements` (a
splice removes one entry only), `CutElements` (agent_end's cut leaves each entry on
one side) and `ConcatElements` (appending and re-adding keep all). Each action
that takes entries off the queue is shown to settle exactly those (`RejectAllStep`,
`SendCatchStep`, the two timeouts, `RunEndsStep`).

`AuthResolver_proofs`, for every value of the constants that satisfies
`CredentialsAssumption`:

- `OwnKeyBlamed`: `KeysFrom = "session"` implies `Spec => []BlamesOwnKey`. A host that
  calls `markKeyFailed` names the credential its own session was created with.
- `FailedKeyStaysOut`, `CooldownRunsOnce`, `PresentTokenRefreshed`: `FailedKeyBenched`,
  `CooldownNotRestarted`, `RefreshesPresentToken`, without a hypothesis.

`BlamesOwnKey` speaks of the last step only and is not inductive. `Attributed` is what it
needs: outside a reinitialization, a host's provider, tier and key index are those of
its session, or the session has no credential. They part when `reinitializeWithProvider`
assigns the fields (`StartReinitMoves`) and meet again when `initialize()` re-reads them
and takes the snapshot in the same synchronous stretch (`InitReturnsStep`; this needs
`StorageKeysType` and the fact that `createAuthStorage` finds what `getActiveKey` has just
found). In between the host reports nothing. `HostsTyped` gives the types of the fields.
`LookType` needs a least index, from the well-foundedness of < on the naturals.

For the cooldowns the invariant is `CInv`: one entry for a credential (`CooldownsTyped`),
the types of the hosts, and `FailedKeyBenched` itself. Whatever is
looked up, `Thinned` holds of what is left: only entries that are over have been deleted
(`PurgeThins`). So `markKeyFailed`, which does nothing where an entry exists, adds one only
where none runs, and each step is `Steady`; and since the search for the next key has deleted
the entry of the failed one if it was over, the failure is recorded (`FailoverCooldowns`). For
the refreshes it is `CallsShaped`, the types of each caller's place in the loop; `Starts` says that
whichever step begins a refresh, one for each way `ensureFresh` gets there, reads the token anew.

`AgentDelivery_proofs`, of hosts whose requests fail:

- `AlwaysWatched` (`Watched`) under `~ResetRole`, in every environment: retries, failovers,
  compactions, aborts, rejected sends, failed initializations, lost streams, and any number of them
  at once. The invariant is `Guarded`: who is deferred has its defer timer, everybody else the
  dispatch timer of the *current* session, also during a reinitialization. A session is replaced
  only by `ReinitSucceeds`, which resends or defers the whole queue (`ReinitGuards`). A new
  delivery must not be taken for a deferred one, so `KnownDelivered` says that nothing in a
  queue, a flag or the snapshot of a suspended handler is still to be delivered. With a reset
  role and a failover at once it is false (`retry` with `Decisions = {"failover"}`, `Watched`).
- `SessionHeard`, of which section 5 shows what breaks it. `RetriesHeard`: for every role, with
  resets, reclaims and failed ones, when errors are retried or given up. `FailoversHeard`: under
  `~ResetRole` and `"initFails" \notin Env`, through any number of overlapping failovers and
  compactions in each of whose states `Apart` holds (no failover restores its prompt while
  another is under way); `FailoverHeard` needs no such condition when nobody prompts or
  there is one error, which is the run `failover`. `Heard`: one handler at a time initializes, it has the
  flag, and the session is unheard only between the two halves of an `initialize()`. Each
  hypothesis is needed: `failover` with `ResetRole = TRUE`, with `Env = {"initFails"}` or with
  `ErrorIds = {1, 2}` violates `SessionHeard`.

`AgentDelivery_proofs`, of hosts none of whose requests fails: for every value of the constants with
`Healthy == ErrorIds = {} /\ "lostStream" \notin Env /\ "slowSends" \notin Env`. Each of the
three breaks one of the properties (section 5), so no weaker hypothesis of this kind will do;
prompts, aborts, rejected sends, resets and failed resets are all in. `queue_healthy` satisfies it.

- `PrefixKept`, `TasksRunAlone`, `SentOnce`, `AnsweredRunsNoMore`, `ReinitAnnounced`:
  `InFlightPrefix`, `ScheduledAlone`, `NoDoubleSend`, `AnsweredNotRunning`, `ReinitFlagHeld`.
- `ResetsWatched` (`Watched`) and `DeferredTriggered` (`DeferredHasTrigger`), with session resets. A
  reset leaves no watchdog of the old session behind, since whoever is not deferred is
  in flight and answered by the run that ends (`PendingInFlight`); and outside a reset
  a queue is never without something in flight (`Moving`).
- `ContractKept`: `Spec => Contract!Init /\ [][Contract!Next]_(Contract!contractVars)`. Every
  step accepts, refuses, completes or fails deliveries as the contract allows or changes
  nothing the senders see. The contract's fairness stays with TLC (`ContractHolds`).

None of these is inductive. `HInv` ties three things together that the code keeps apart:
`WellQueued` (the deferred entries are those after the count, each entry is queued once, and no
task is among the first ones unless alone), `OnTheWay` (an entry is in flight if and only if it
is in the session's run once, or its send awaits its reload, or its rejection its catch) and
`Attached` (the session that is sent to is the one that is heard; without one a single reset is
under way). `DispatchedInterval` says what `replayPendingDeliveries` takes from a queue,
`ReplayHealthy` that its count matches its sends; `RunEndsHealthy` needs all three parts to
conclude that agent_end resolves exactly what its run has processed.

`AgentLifecycle_proofs`, for any agents, projects, hosts and reminders: `OneHostEach`
(`OneHost`), `ArchivedStaysOut` (`ArchivedIsOut`), `NobodyForgotten` (`NoSilentOrphan`). The
invariant is `Placed(a)` and `Remembered(a)` for every agent that is not in `missed`: it is in
the restore's list, in a host that starts and is not registered yet, or in a host that runs and
is registered, in one of these only, and in none unless its row is active. `RegisteredRuns`
and `ListedOnce` are what a step needs to keep that when it acts on another agent, and
`DownIsEmpty` what the start after a crash relies on.

`NarratorJob_proofs`: `Told` (`NothingSkipped`) and `LogsWhole` (`LogWhole`) under
`~FirstInstall`, because before the first cursor a window starts at the clock (section 5);
`RowsFinal` (`FinalRowKept`) without a hypothesis. What has been told up to a cursor (`Whole`)
only stays true if every handler keeps its word: `Promised(j)` says of each handler that what
its window lacks is in the deliveries it still has in the queue, `Earned(j)` that what it
is about to write has been processed, `SummaryFirst(j)` that it writes the summary's
cursor before those of the logs, so that a process that ends between two of them only repeats.
Handlers may overlap: none relies on another's cursor staying where it was.
`StoriesWhole` (`StoryComplete`) under `~FirstInstall` and `"rejects" \notin Env` (both are in
section 5): `StoryFollows` says of every story in the queue that each entry it shows was told
to the log or stands in a delivery to the log ahead of it. That the two messages together leave no
gap needs `Whole`, which is why it is not proved on its own.

`DbAdapters_proofs`: `NoSecondAdapter` (`OneAdapter`) for every kind of database, by
`RegistryInv`: whoever creates does so alone. `ConnectionsTornDown` (`TornDown`) under
`Assumed == Kinds \cap Awaited = {} /\ "slowOpens" \notin Env`: for sqlite, pools,
clickhouse without slow pings, and duckdb. With mssql, snowflake or a slow clickhouse it is false
(section 5). `HandleInv` says who may hold a connection: one caller verifies or opens, and
whatever is open is the registered adapter's handle or on its way to become it.

`ServerProcesses_proofs`, under `OneShell == \E s : Shells = {s}` (two starts at once are in
section 5): `ServerStaysKnown` (`ServerKnown`), and `OneWriterAlways`: at no time do two
processes have a session open. `Progress(s)` says at each step of a start or a stop what runs
and what the PID file says; above all that nobody runs when a start spawns. And
`NoOrphansEver` (`NoOrphanResults`), for every threshold, budget and number of archives, and
sessions of any length: no session file ever holds a tool result without its call. It does
not follow from the filter alone, since a session is also appended to, rotated again, cut
off while it is written and opened by another process. `SessionInv` says that every session file is
`Sound`: ids grow (`Growing`), a result directly follows the call it answers and hangs on it
(`Linked`), and no session begins with a result; that names tell the files apart; and that
what an agent has in memory is what its file holds, so that what it appends fits. A tail
that a rotation cuts (`PartLinked`) is linked but may begin with a result;
`DroppedClosed` shows by the levels of the walk that `DroppedIds` is closed, so that a call dropped
takes its result along (`FilteredSound`). `SelectedPicks` says what `Selected` returns; the model
selects places and not elements that satisfy a predicate, because the provers cannot instantiate an
operator that takes one. That a fresh name exists is a count of the names in use (`FreshIsNew`).

And `NothingForgottenEver` (`NothingForgotten`), also under `"torn" \notin Env` (section 5):
through any number of rotations, compactions and crashes between two steps, an agent that
starts has its last summary with what follows it, or the last turns that fit the tail.
`MemoryInv` adds to `SessionInv` that agents append to the newest file and that an archive is
never the newest. Of the newest file (`Remembered`) it says that each entry hangs on the one
before (`Chained`); that it ends with the history from every `Recent` turn on (`Held`); and, as
long as no compaction severs a call from its result (`Whole`), that it *is* the end of the
history and holds what the last compaction keeps (`Covers`). The last is needed because the
anchor of the next rotation is looked up in this file: were the kept entry gone, the rotation
would cut elsewhere. A rotation keeps both (`RecentSurvives`, `WholeSurvives`): the filter
drops nothing behind the anchor's compaction, which answers no call and so stops its walk
(`CompactionShields`), and nothing at all from a sound session (`SoundUnfiltered`). What
fits the tail is a matter of sizes: `Total` is a recursive function, so that equal ends have
equal sizes (`SameSize`) and an end only grows (`SizeFromGrows`), and a turn that is
`Recent` after an append was so before.

`ChatSync_proofs`, for every value of the constants that satisfies `ChatAssumption`:
`ShowsEveryRowOnce` (`NothingMissing`), `ShowsRowsInOrder` (`OrderKept`) and `DraftStays`
(`DraftKept`) without a hypothesis, `IdleShowsNothing` (`IndicatorsIdle`) under
`"rejects" \notin Env`, since a rejected prompt leaves other tabs waiting (section 5).

All four speak of tabs to which nothing is on its way, and say nothing of the others; the
invariants are about what any tab *will* show once it has received the messages on their way.
`CoreInv` is that of the rows: the cache is well formed (`CacheOK`); of each tab (`TabOK`) the
store and the messages on their way are well formed, only errors are on their way to a connection without
subscription, and a tab that listens is `InStep` with the cache: each row of the cache is
shown or still to be told (`Told`), after a snapshot on its way too, and of two rows that are not its own the
earlier is told first (`Orderly`). A message the user has sent and the server has not yet
served is known to the tab that inserted it and to nobody else (`AwaitedOnce`), so that the
row cannot come back twice. `FlagInv` does the same for draft, stream and wait: `Flags` says how
each will end (`EndsOff`, `EndsOn`), given what the last message on the way that concerns it says.
To receive a message changes neither (`HearKeeps`, `FlagsHear`), as what is shown then was what would be
shown, so the work is in what the server sends: rows pushed to the cache (`RowsPushed`), the snapshot
at a switch or reconnect (`TabSnapshot`) and the events of a turn (`FlagsSent`, with `Suits` for
what a step may send). The merge of a snapshot with what a tab shows is a recursive function
(`Without`); that it keeps what it must, once and in order, is `WithoutKeeps`, by the least
place at which it would fail.

`ShellCommand_proofs`: `OutputOfCommand` (`OutputWhole`), for every value of the constants that
satisfies `ShellAssumption`: any number of lines, any division into data events, any timeouts. While the
process is open (`Reading`), of the first `read` halves those after the last end of a line are
pending, `Kept` says what is kept of the others, and the heartbeats among them are the ones
reported, in their order (`Lists`). `KeepMore` is the step: a further piece of text is appended
whole or dropped whole, and it can only be dropped if the text as a whole does not fit, which is why
the invariant relates the buffer to the size of all text read so far and not to what is
kept. `Done` keeps what the close gave, as timers and the abort may still come. Before a process is closed
nothing is settled as an end of its own (`EndsItself`), so that a timeout or an abort
cannot pass for one. A reply fits by `PreviewFits`, for any budgets: with the tail cut to the rest of
the budget and both halved, header, head and tail fit, or both are empty. Three facts about
sequences carry it: a set of numbers has one rising list (`ListsEqual`), as long as the set is large
(`ListsLen`), and `AtPlaces` gives it (`AtPlacesLists`).

Only model-checked: in `AgentDelivery`, once a request fails, `DeferredHasTrigger`, `ScheduledAlone`
and the contract (runs `retry` and `failover`, one error each; section 5 shows how more break
them). Liveness under
fairness (`Settles`, `FailuresHandled`, `RowsSettle`, `RestoreEnds`, `EveryCallAnswered`, and
the liveness of the contract) is beyond the prover.

## 5. Disagreements between code and documentation

Each appears when the constants given here replace those of the run named (the others
unchanged) and the property named is the one that is checked. Where a run lists such a
property itself, its own constants leave out what breaks it.

| What | Code | How to see it |
|---|---|---|
| A run that ends while a delivery awaits its resource reload resolves that delivery, which has not been sent ("resolves when agent_end confirms the delivery was processed", host.ts:1903) | host.ts:2065 | `failover` with `ErrorIds = {}`, `Decisions = {}`, `Env = {"prompt", "slowSends"}`, `ResolvedWasProcessed` |
| Overflow recovery replays the queue twice on one session ("don't pile a scheduled-task delivery onto an in-flight delivery", host.ts:2014) | host.ts:2549 | `failover` with `Decisions = {"overflow"}`, `ScheduledAlone` |
| An aborted and rejected delivery is run by the failover in progress (host.ts:1903) | host.ts:1493 | `failover` with `Env = {"abort"}`, `AnsweredNotRunning` |
| After a failed failover the host accepts deliveries on a session it no longer hears (host.ts:1924) | host.ts:433 | `failover` with `Env = {"initFails"}`, `SessionHeard` |
| Two hosts that awaited the same refresh start one each ("refresh runs once", auth-resolver.ts:376) | auth-resolver.ts:401 | `credentials` with three `Agents`, `ErrorKinds = {"auth401"}`, `MaxErrors = 3`, `MaxToken = 0`, `OneRefreshPerProvider` |
| A retry that wakes after the session reset of the errored task sends the task again, next to the replayed one | host.ts:1217 | `retry` with `Decisions = {"retry"}`, `ScheduledAlone` |
| A delivery queued during a failover with nothing else to resend stays deferred until a watchdog | host.ts:1539 | `failover` with `Env = {}`, `DeferredHasTrigger` |
| A dispatch timeout sends the next scheduled task into a run that is late, not dead | host.ts:2669 | `failover` with `ErrorIds = {}`, `Env = {"lostStream"}`, `ScheduledAlone` |
| A failover and a session reset that overlap leave a promise nothing answers | host.ts:2637 | `retry` with `Decisions = {"failover"}`, `Env = {"lostStream"}`, `Settles` |
| The `finally` of one reinitialization clears the flag of the next | host.ts:1615 | `failover` with `ErrorIds = {1, 2}`, `ReinitFlagHeld` |
| A failed resend of a retry does not release the gate | host.ts:1246 | `retry` with `ResetRole = FALSE`, `Env = {"sendFails"}`, `DeferredHasTrigger` |
| If the SDK resolves a session's key through the `ModelRegistry` (`llm/oneshot.ts:20` calls it "Registry for API key resolution"), a host can blame a key its session does not use | host.ts:1465, 696 | `credentials` with `KeysFrom = "registry"`, `BlamesOwnKey` |
| "If a job fails, the cursor stays stale" (docs/scheduler.md:105): the handler of a job that timed out goes on and advances it | jobs.ts:1485 | `narrator`, `FailedJobKeepsCursors` |
| "The next cron tick retries from the same lastRunTs" (jobs.ts:1278-1279): before the first cursor the window starts at the clock minus the interval, so a failed first summary leaves a gap | jobs.ts:911-935 | `narrator` with `FirstInstall = TRUE`, `SameWindowRetried` and `NothingSkipped` |
| A memory update reads the summary files when it is queued, while a summary of the day before may still wait in the queue; its cursor then passes that day ("the Narrator processes summaries first", server.ts:711) | jobs.ts:1651-1800 | `narrator_story` with `Env = {"memory"}`, `MemoryComplete` |
| Two daily summaries overlap and the Conductor is archived in between: the second finds nothing left to tell, is skipped and advances the cursor at once; the first then writes its older one | jobs.ts:853-866, 1125-1134 | `narrator` with `Env = {"archives"}`, `CursorForward` |
| "On skip (no activity), the cursor still advances to prevent re-scanning the same empty window" (docs/scheduler.md:70, jobs.ts:1130): two summaries await the Narrator for the same activity, the first ends and writes its cursor, a third finds nothing more, is skipped and advances the cursor, and then the second writes its older one, so that the empty window is scanned again. Nothing is lost: `NothingSkipped` and `LogWhole` are proved | jobs.ts:1300, 853-866 | `narrator` with `Jobs = {1, 2, 3}`, `MaxActivity = 1`, `Env = {}`, `CursorForward` |
| The final log update of a story covers nothing when the log has no cursor, and is lost alone when the Narrator's host rejects it ("log", trigger-project-story.ts:128) | trigger-project-story.ts:126-278 | `narrator_story` with `FirstInstall = TRUE`, or with `Env = {"story", "rejects"}`, `StoryComplete` |
| A terminate while `initialize()` is awaited finds no host; the host is then registered although its row is archived (docs/tools.md:292) | resurrect-agent.ts:132, terminate-agent.ts:119 | `lifecycle`, `TerminatedStaysOut` |
| "Mirrors" (handler.ts:10-11, chat.ts:8-9, history.ts:6): a tab keeps rows the cache has dropped, and its own messages where it inserted them | chat.ts:160-291 | `chat`, `MirrorsCache` |
| A message whose `prompt()` rejects leaves its tabs waiting: only `agent_end` clears the indicator | handler.ts:179-184 | `chat` with `Env = {"rejects"}`, `IndicatorsIdle` |
| A rotation filters the entry that the last compaction names as its first kept one; the next rotation does not find it, falls back to the tail and drops the summary (session-rotation.ts:5, docs/configuration.md:271) | session-rotation.ts:552-633 | `processes`, `SummaryKept` |
| A crash in the middle of writing the rotated file leaves the newest session file truncated, and the next start opens it | session-rotation.ts:348 | `processes` with `Env = {"crashes", "torn"}`, `NothingForgotten` |
| Two starts at the same time both spawn a server (docs/cli.md:88) | start.ts:157 | `processes` with `Shells = {1, 2}`, `OneWriter` |
| mssql and snowflake: two queries that find no connection open one each, and only the later is ever closed (mssql.ts:5-6) | mssql.ts:38-58, snowflake.ts:43-87 | `adapters` with `Kinds = {"mssql"}` (or `{"snowflake"}`), `Queries = {1, 2, 3}`, `Env = {}`, `TornDown` |
| clickhouse: a failed ping awaits `close()` and then clears a variable that may hold the client another query has opened meanwhile | clickhouse.ts:70-73 | `adapters` with `Kinds = {"clickhouse"}`, `Env = {"failures", "slowOpens"}`, `TornDown` |

Seen while reading, without a property of their own:

- docs/configuration.md:251 has `catch_up_budget_bytes` bound the project story too; the tool
  does not use it. docs/scheduler.md:127 speaks of `performance.now()`; the code uses
  `Date.now()`.
- docs/tools.md:316 says that only the Guide may resurrect agents; `resurrect_agent` allows
  a Conductor of the same project as well. A terminated agent's reminders stay pending
  and go to its resurrected host. A failed spawn leaves an active row, which the next start
  restores.
- bash.ts:39-40 says that output past `MAX_BUFFER` is dropped; a chunk that does not fit is
  dropped whole, and later, smaller ones are still added. A background process killed by a
  signal has no code and is reported as completed (bash.ts:315, 686). One that cannot be
  started notifies twice (731-741, then 671-729). A heartbeat without an end of line at the
  end of the output is not reported. A notification goes to the session the host has then
  (host.ts:1765-1772), and is lost when it has none.
- docs/cli.md:120 gives a threshold that `rotateLogIfNeeded` does not use.

## 6. Not modelled

Components marked `not_modelled` in `PROJECT.json`, with the reason there, and within a
component marked `partly` what its note says. UI rendering, TOML and text handling,
templates, dialogues and single I/O calls have no interleavings worth a model; every
statement of the app database is synchronous, so that tasks, comments and artifacts have
no steps to interleave.

## 7. Plan

Done: the models of section 2 and the theorems of section 4. Next, a theorem: in
`AgentDelivery`, `DeferredHasTrigger` for errors that are retried, with sends that are not
rejected.
