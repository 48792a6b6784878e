---------------------------- MODULE AgentDelivery ----------------------------
(***************************************************************************)
(* The delivery machinery of one AgentHost (src/server/agents/host.ts):    *)
(* the queue of inter-agent deliveries, the promises handed to senders,    *)
(* the watchdog timers, the post-scheduled-task session reset and the      *)
(* error handling that retries, fails over or compacts and then replays    *)
(* the queue on a new SDK session.                                         *)
(*                                                                         *)
(* JavaScript runs to completion between awaits, so an action is the code  *)
(* from one await (or SDK event, or timer callback) to the next.           *)
(* handlePotentialError runs its synchronous part on message_end and the   *)
(* SDK emits agent_end right after it: both are the one action RunFails.   *)
(* Which recovery an error gets (retry.ts, AuthResolver) is a choice.      *)
(***************************************************************************)
EXTENDS Integers, Sequences, FiniteSets

CONSTANTS
    Deliveries,   \* delivery entries, each passed to deliverMessage at most once
    Scheduled,    \* those whose content starts with "[Scheduled task:"
    Oversized,    \* those above maxDeliveryBytes
    Prompt,       \* stands for a user prompt in a run
    Sessions,     \* identifiers for SDK sessions, reused once nothing holds them
    ErrorIds,     \* one handlePotentialError invocation each (bounds the errors)
    Decisions,    \* the recoveries an error may get
    ResetRole,    \* reset_session_after_scheduled_task of the agent's role
    Env           \* what the environment does to the host, a subset of AllEvents

AllDecisions == {"retry", "failover", "await", "overflow", "exhausted"}

AllEvents == {"prompt",      \* the user prompts the agent
              "abort",       \* the user aborts it
              "sendFails",   \* sendCustomMessage or session.prompt rejects
              "initFails",   \* initialize() throws
              "bloated",     \* the session file of a reset role outgrows the reclaim limit
              "lostStream",  \* a run may never end, so watchdogs fire
              "slowSends"}   \* an SDK event precedes the end of a reload or the rejection of a send

ASSUME ConstantsAssumption ==
    /\ Scheduled \subseteq Deliveries
    /\ Oversized \subseteq Deliveries
    /\ Prompt \notin Deliveries
    /\ Sessions \subseteq Nat \ {0}
    /\ 1 \in Sessions
    /\ ErrorIds \subseteq Nat
    /\ IsFiniteSet(Deliveries)
    /\ Decisions \subseteq AllDecisions
    /\ ResetRole \in BOOLEAN
    /\ Env \subseteq AllEvents

VARIABLES
    status,               \* the sender's promise: new, pending, resolved, rejected
    pendingDeliveries,    \* this.pendingDeliveries
    deliverySendCount,    \* this.deliverySendCount
    deferred,             \* entries whose `deferred` flag is set
    timer,                \* the armed watchdog of each entry
    session,              \* this.session, 0 for null
    subscribed,           \* sessions whose events reach handleSessionEvent
    unsubscribeSession,   \* the session this.unsubscribeSession detaches, 0 for null
    isReinitializing,     \* this.isReinitializing
    resetInits,           \* initialize() calls of the reset and reclaim paths in flight
    pendingPrompt,        \* whether this.pendingPrompt is set
    promptReload,         \* prompt() awaits its reload
    currentTurnHasOutput, \* this.currentTurnHasOutput
    contextOverflowHandled, \* this.contextOverflowHandled
    reloading,            \* first sends of deliverMessage that await their reload
    failedSends,          \* rejected sends whose catch has not run yet
    handlers,             \* suspended handlePotentialError invocations
    run,                  \* SDK: how often each message is in a session's current run
    processed             \* history: deliveries a run has processed to its end

queueVars   == <<status, pendingDeliveries, deliverySendCount, deferred, timer>>
sessionVars == <<session, subscribed, unsubscribeSession, isReinitializing, resetInits>>
promptVars  == <<pendingPrompt, promptReload>>
sendVars    == <<reloading, failedSends>>
vars == <<queueVars, sessionVars, promptVars, currentTurnHasOutput,
          contextOverflowHandled, sendVars, handlers, run, processed>>

-----------------------------------------------------------------------------
(* Types and small helpers *)

NoTimer    == 0           \* timer[d] = s \in Sessions: dispatch timer for session s
DeferTimer == -1
Messages   == Deliveries \cup {Prompt}
Stages     == {"idle", "await", "sleep", "prompted", "fresh", "init", "reprompted",
               "compact", "recovered", "finished"}
Handler    == [at : Stages, snapshot : Seq(Deliveries), prompt : BOOLEAN,
               then : {"done", "compact", "replay"}, after : {"replay", "failover"}]
Idle       == [at |-> "idle", snapshot |-> <<>>, prompt |-> FALSE,
               then |-> "done", after |-> "replay"]
Finished   == [Idle EXCEPT !.at = "finished"]
NoRun      == [m \in Messages |-> 0]

Elements(q) == {q[i] : i \in DOMAIN q}
Smaller(a, b) == IF a < b THEN a ELSE b
\* Fault: the count is not kept at or above zero.
DecrementBelowZero(n) == n - 1
Decrement(n) == IF n > 0 THEN n - 1 ELSE 0
Position(q, d) == CHOOSE i \in DOMAIN q : q[i] = d

\* pendingDeliveries.splice(indexOf(d), 1)
Without(q, d) ==
    IF d \in Elements(q)
    THEN SubSeq(q, 1, Position(q, d) - 1) \o SubSeq(q, Position(q, d) + 1, Len(q))
    ELSE q

\* A promise settles once; later calls of resolve or reject change nothing.
Settle(S, outcome) ==
    [d \in Deliveries |-> IF d \in S /\ status[d] = "pending" THEN outcome ELSE status[d]]

\* resolve and reject clear the entry's watchdog.
Disarm(S) == [d \in Deliveries |-> IF d \in S THEN NoTimer ELSE timer[d]]
\* Fault: deliverMessage arms no watchdog.
ArmNothing(S, t) == timer
Arm(S, t) == [d \in Deliveries |-> IF d \in S THEN t ELSE timer[d]]

Running(s) == run[s] # NoRun

\* The messages of S join session s's run (or start one).
Joined(r, s, S) ==
    [r EXCEPT ![s] = [m \in Messages |-> IF m \in S THEN r[s][m] + 1 ELSE r[s][m]]]

\* What the host can still observe: sessions it subscribes to or sends to.
Observable(r, live) == [s \in Sessions |-> IF s \in live THEN r[s] ELSE NoRun]

\* Events of the SDK overtake a pending send only where Env says so.
SendsSettled == "slowSends" \in Env \/ (reloading = {} /\ failedSends = {} /\ ~promptReload)

InFlight == {pendingDeliveries[i] : i \in 1..Smaller(deliverySendCount, Len(pendingDeliveries))}

FreshSessions ==
    Sessions \ (subscribed \cup {session, unsubscribeSession} \cup {timer[d] : d \in Deliveries}
                \cup {r.on : r \in reloading} \cup {f.on : f \in failedSends})
NewSession(s) == s \in FreshSessions /\ \A t \in FreshSessions : s <= t

-----------------------------------------------------------------------------
(* Settling the whole queue, and replaying it *)

\* Fault: the queue is emptied without an answer to the senders.
RejectAllSilently ==
    /\ pendingDeliveries' = <<>>
    /\ UNCHANGED <<status, timer, deferred>>

\* Fault: rejected entries stay queued.
RejectAllInPlace ==
    /\ status' = Settle(Elements(pendingDeliveries), "rejected")
    /\ timer' = Disarm(Elements(pendingDeliveries))
    /\ UNCHANGED <<pendingDeliveries, deferred>>

\* for (d of pendingDeliveries) d.reject(..); pendingDeliveries = []
RejectAll ==
    /\ status' = Settle(Elements(pendingDeliveries), "rejected")
    /\ timer' = Disarm(Elements(pendingDeliveries))
    /\ pendingDeliveries' = <<>>
    /\ UNCHANGED deferred

\* Fault: the replay starts over with the entries in flight.
DispatchedFromStart(q, count) ==
    {i \in 1..Len(q) : \A j \in (count + 1)..i : q[j] \in Scheduled => i = 1}

\* Fault: a scheduled task at the head of the queue is held back too.
DispatchedChatsOnly(q, count) ==
    {i \in (count + 1)..Len(q) : \A j \in (count + 1)..i : q[j] \notin Scheduled}

(* The positions of q that replayPendingDeliveries dispatches when the first
   `count` are in flight: up to a scheduled task, which only goes first and alone. *)
Dispatched(q, count) ==
    {i \in (count + 1)..Len(q) : \A j \in (count + 1)..i : q[j] \in Scheduled => i = 1}

(* replayPendingDeliveries: dispatch from index `count` of q on session s, whose
   runs are r. The caller has settled `out` and leaves the rejected sends `fails`;
   a send that is rejected has its catch run in a later microtask.            *)
ReplayOn(s, r, q, count, out, fails) ==
    LET sent == {q[i] : i \in Dispatched(q, count)}
    IN  /\ pendingDeliveries' = q
        /\ deliverySendCount' = count + Cardinality(Dispatched(q, count))
        /\ deferred' = deferred \ sent
        /\ timer' = [d \in Deliveries |-> IF d \in sent THEN s
                                          ELSE IF d \in out THEN NoTimer
                                          ELSE timer[d]]
        /\ \E bad \in SUBSET sent :
            /\ bad # {} => "sendFails" \in Env
            /\ failedSends' = fails \cup [d : bad, on : {s}, release : {TRUE}]
            /\ run' = Joined(r, s, sent \ bad)

\* The queue becomes q and nothing is dispatched.
NoReplay(q, count, out, fails) ==
    /\ pendingDeliveries' = q
    /\ deliverySendCount' = count
    /\ timer' = Disarm(out)
    /\ failedSends' = fails
    /\ UNCHANGED deferred

HasDeferred(q) == \E d \in Elements(q) : d \in deferred

-----------------------------------------------------------------------------
Init ==
    /\ status = [d \in Deliveries |-> "new"]
    /\ pendingDeliveries = <<>>
    /\ deliverySendCount = 0
    /\ deferred = {}
    /\ timer = [d \in Deliveries |-> NoTimer]
    /\ session = 1                      \* the server awaits the first initialize()
    /\ subscribed = {1}
    /\ unsubscribeSession = 1
    /\ isReinitializing = FALSE
    /\ resetInits = 0
    /\ pendingPrompt = FALSE
    /\ promptReload = FALSE
    /\ currentTurnHasOutput = FALSE
    /\ contextOverflowHandled = FALSE
    /\ reloading = {}
    /\ failedSends = {}
    /\ handlers = [h \in ErrorIds |-> Idle]
    /\ run = [s \in Sessions |-> NoRun]
    /\ processed = {}

-----------------------------------------------------------------------------
(* deliverMessage and prompt *)

\* Fault: without reason (d), an arrival overtakes deferred entries.
GatedWithoutFifo(d) ==
    \/ session = 0
    \/ isReinitializing
    \/ (d \in Scheduled /\ deliverySendCount > 0)
    \/ InFlight \cap Scheduled # {}

\* Fault: without reason (c), a chat joins the run of a scheduled task.
GatedScheduledOnly(d) ==
    \/ session = 0
    \/ isReinitializing
    \/ (d \in Scheduled /\ deliverySendCount > 0)
    \/ Len(pendingDeliveries) > deliverySendCount

\* The four reasons of deliverMessage to defer instead of sending now.
Gated(d) ==
    \/ session = 0
    \/ isReinitializing
    \/ (d \in Scheduled /\ deliverySendCount > 0)
    \/ InFlight \cap Scheduled # {}
    \/ Len(pendingDeliveries) > deliverySendCount

DeliverRejected(d) ==
    /\ status[d] = "new"
    /\ (session = 0 /\ ~isReinitializing) \/ d \in Oversized
    /\ status' = [status EXCEPT ![d] = "rejected"]
    /\ UNCHANGED <<pendingDeliveries, deliverySendCount, deferred, timer, sessionVars, promptVars,
                   currentTurnHasOutput, contextOverflowHandled, sendVars, handlers, run, processed>>

DeliverMessage(d) ==
    /\ status[d] = "new"
    /\ d \notin Oversized
    /\ session # 0 \/ isReinitializing
    /\ status' = [status EXCEPT ![d] = "pending"]
    /\ pendingDeliveries' = Append(pendingDeliveries, d)
    /\ IF Gated(d)
       THEN /\ deferred' = deferred \cup {d}
            /\ timer' = Arm({d}, DeferTimer)
            /\ UNCHANGED <<deliverySendCount, reloading>>
       ELSE /\ deliverySendCount' = deliverySendCount + 1
            /\ timer' = Arm({d}, session)
            /\ reloading' = reloading \cup {[d |-> d, on |-> session]}
            /\ UNCHANGED deferred
    /\ UNCHANGED <<sessionVars, promptVars, currentTurnHasOutput, contextOverflowHandled,
                   failedSends, handlers, run, processed>>

\* Fault: the catch drops the entry without rejecting it.
SendCatchSilently(d, s, out, release, fails) ==
    /\ IF session # s
       THEN failedSends' = fails /\ UNCHANGED <<pendingDeliveries, deliverySendCount, timer>>
       ELSE NoReplay(Without(pendingDeliveries, d), Decrement(deliverySendCount), out, fails)
    /\ UNCHANGED <<status, deferred, run>>

(* The catch of a send: drop the entry and reject `out`, then release the gate if
   the send's site does so. A catch on a stale session does nothing.            *)
SendCatch(d, s, out, release, fails) ==
    IF session # s
    THEN failedSends' = fails /\ UNCHANGED <<queueVars, run>>
    ELSE LET q == Without(pendingDeliveries, d)
         IN  /\ status' = Settle(out, "rejected")
             /\ IF release /\ HasDeferred(q)
                THEN ReplayOn(s, run, q, Decrement(deliverySendCount), out, fails)
                ELSE /\ NoReplay(q, Decrement(deliverySendCount), out, fails)
                     /\ UNCHANGED run

\* The reload of a first send ends: sendCustomMessage on the captured session.
ReloadEnds(r) ==
    /\ r \in reloading
    /\ reloading' = reloading \ {r}
    /\ \/ /\ run' = IF r.on \in subscribed \cup {session} THEN Joined(run, r.on, {r.d}) ELSE run
          /\ UNCHANGED <<queueVars, failedSends>>
       \/ /\ "sendFails" \in Env
          /\ SendCatch(r.d, r.on, {r.d} \cap Elements(pendingDeliveries), TRUE, failedSends)
    /\ UNCHANGED <<sessionVars, promptVars, currentTurnHasOutput, contextOverflowHandled,
                   handlers, processed>>

\* The catch of a send made by a replay, a failover or a retry.
SendFails(f) ==
    /\ f \in failedSends
    /\ SendCatch(f.d, f.on, {f.d}, f.release, failedSends \ {f})
    /\ UNCHANGED <<sessionVars, promptVars, currentTurnHasOutput, contextOverflowHandled,
                   reloading, handlers, processed>>

UserPrompt ==
    /\ "prompt" \in Env
    /\ SendsSettled
    /\ ~isReinitializing
    /\ session # 0
    /\ ~promptReload
    /\ run[session][Prompt] = 0
    /\ pendingPrompt' = TRUE
    /\ promptReload' = TRUE
    /\ UNCHANGED <<queueVars, sessionVars, currentTurnHasOutput, contextOverflowHandled,
                   sendVars, handlers, run, processed>>

\* this.session is read after the reload: null makes prompt() throw to its caller.
PromptReloadEnds ==
    /\ promptReload
    /\ promptReload' = FALSE
    /\ run' = IF session # 0 THEN Joined(run, session, {Prompt}) ELSE run
    /\ UNCHANGED <<queueVars, sessionVars, pendingPrompt, currentTurnHasOutput,
                   contextOverflowHandled, sendVars, handlers, processed>>

\* abort() may or may not be followed by an agent_end of the stopped run.
Abort ==
    /\ "abort" \in Env
    /\ SendsSettled
    /\ session # 0
    /\ \E silent \in BOOLEAN :
          run' = [run EXCEPT ![session] =
                    IF silent \/ ~Running(session) THEN NoRun
                    ELSE [m \in Messages |-> IF m = Prompt THEN 1 ELSE 0]]
    /\ pendingPrompt' = FALSE
    /\ deliverySendCount' = 0
    /\ RejectAll
    /\ UNCHANGED <<sessionVars, promptReload, currentTurnHasOutput, contextOverflowHandled,
                   sendVars, handlers, processed>>

-----------------------------------------------------------------------------
(* Watchdogs *)

\* Something is under way that ends in another event of this host.
Underway ==
    \/ isReinitializing
    \/ \E s \in subscribed : Running(s)
    \/ reloading # {} \/ failedSends # {} \/ promptReload
    \/ \E h \in ErrorIds : handlers[h].at \notin {"idle", "finished"}

(* PENDING_DELIVERY_TIMEOUT_MS, and DELIVERY_DISPATCH_TIMEOUT_MS below, outlast whatever
   is under way, unless a stream is lost.                                            *)
DeferTimeout(d) ==
    /\ "lostStream" \in Env \/ ~Underway
    /\ timer[d] = DeferTimer
    /\ LET wedged == d \in Elements(pendingDeliveries) /\ d \in deferred
       IN  /\ pendingDeliveries' = IF wedged THEN Without(pendingDeliveries, d)
                                            ELSE pendingDeliveries
           /\ status' = IF wedged THEN Settle({d}, "rejected") ELSE status
    /\ timer' = Disarm({d})
    /\ UNCHANGED <<deliverySendCount, deferred, sessionVars, promptVars, currentTurnHasOutput,
                   contextOverflowHandled, sendVars, handlers, run, processed>>

DispatchTimeout(d) ==
    /\ "lostStream" \in Env \/ ~Underway
    /\ timer[d] \in Sessions
    /\ SendsSettled
    /\ IF timer[d] = session /\ d \in Elements(pendingDeliveries)
       THEN LET q == Without(pendingDeliveries, d)
                count == Decrement(deliverySendCount)
            IN  /\ status' = Settle({d}, "rejected")
                /\ currentTurnHasOutput' = FALSE
                /\ IF ~isReinitializing /\ HasDeferred(q)
                   THEN ReplayOn(session, run, q, count, {d}, failedSends)
                   ELSE /\ NoReplay(q, count, {d}, failedSends)
                        /\ UNCHANGED run
       ELSE /\ timer' = Disarm({d})
            /\ UNCHANGED <<status, pendingDeliveries, deliverySendCount, deferred, failedSends,
                           currentTurnHasOutput, run>>
    /\ UNCHANGED <<sessionVars, promptVars, contextOverflowHandled, reloading, handlers, processed>>

-----------------------------------------------------------------------------
(* Events of a subscribed session *)

TurnStarts(s) ==
    /\ s \in subscribed
    /\ Running(s)
    /\ currentTurnHasOutput
    /\ currentTurnHasOutput' = FALSE
    /\ UNCHANGED <<queueVars, sessionVars, promptVars, contextOverflowHandled, sendVars,
                   handlers, run, processed>>

ModelOutput(s) ==
    /\ s \in subscribed
    /\ Running(s)
    /\ ~currentTurnHasOutput
    /\ currentTurnHasOutput' = TRUE
    /\ UNCHANGED <<queueVars, sessionVars, promptVars, contextOverflowHandled, sendVars,
                   handlers, run, processed>>

\* Fault: the reset does not announce itself.
ResetUnannounced(newRun) ==
    /\ session' = 0
    /\ subscribed' = subscribed \ {unsubscribeSession, session}
    /\ unsubscribeSession' = 0
    /\ UNCHANGED isReinitializing
    /\ resetInits' = resetInits + 1
    /\ run' = Observable(newRun, subscribed')

\* resetSessionToHeader, followed by the synchronous start of initialize().
ResetSession(newRun) ==
    /\ session' = 0
    /\ subscribed' = subscribed \ {unsubscribeSession, session}
    /\ unsubscribeSession' = 0
    /\ isReinitializing' = TRUE
    /\ resetInits' = resetInits + 1
    /\ run' = Observable(newRun, subscribed')

(* agent_end of a run that did not set lastTurnErrored. An error that arrives
   while isReinitializing leaves the flag unset and ends the run this way too. *)
RunEnds(s, errored) ==
    /\ s \in subscribed
    /\ Running(s)
    /\ SendsSettled
    /\ errored => isReinitializing
    /\ LET done  == InFlight
           rest  == SubSeq(pendingDeliveries,
                           Smaller(deliverySendCount, Len(pendingDeliveries)) + 1,
                           Len(pendingDeliveries))
           ended == [run EXCEPT ![s] = NoRun]
       IN  /\ status' = Settle(done, "resolved")
           /\ IF ResetRole /\ done \cap Scheduled # {}
              THEN /\ ResetSession(ended)
                   /\ NoReplay(rest, 0, done, failedSends)
              ELSE /\ UNCHANGED sessionVars
                   /\ IF session # 0 /\ ~isReinitializing /\ HasDeferred(rest)
                      THEN ReplayOn(session, ended, rest, 0, done, failedSends)
                      ELSE NoReplay(rest, 0, done, failedSends) /\ run' = ended
    /\ processed' = IF errored THEN processed
                    ELSE processed \cup {d \in Deliveries : run[s][d] > 0}
    /\ pendingPrompt' = FALSE
    /\ currentTurnHasOutput' = FALSE
    /\ UNCHANGED <<promptReload, contextOverflowHandled, reloading, handlers>>

\* A run of the current session that the host no longer listens to.
RunEndsUnseen(s) ==
    /\ s \notin subscribed
    /\ Running(s)
    /\ run' = [run EXCEPT ![s] = NoRun]
    /\ processed' = processed \cup {d \in Deliveries : run[s][d] > 0}
    /\ UNCHANGED <<queueVars, sessionVars, promptVars, currentTurnHasOutput,
                   contextOverflowHandled, sendVars, handlers>>

-----------------------------------------------------------------------------
(* handlePotentialError *)

NextHandler(h) == handlers[h].at = "idle" /\ \A k \in ErrorIds : k < h => handlers[k].at # "idle"

(* Where an invocation stands at its first await, for the queue q it snapshots. *)
FirstStage(decision, q) ==
    LET rec == [Idle EXCEPT !.snapshot = q, !.prompt = pendingPrompt]
    IN  CASE decision = "retry" /\ (pendingPrompt \/ q # <<>>) -> [rec EXCEPT !.at = "sleep"]
          [] decision = "await"    -> [rec EXCEPT !.at = "await"]
          [] decision = "failover" -> [rec EXCEPT !.at = "fresh"]
          [] decision = "overflow" -> [rec EXCEPT !.at = "fresh", !.then = "compact"]
          [] OTHER                 -> Finished

(* A run errors: the synchronous part of handlePotentialError on message_end,
   then agent_end of the errored turn. The queue is rejected if the turn had
   output, on a wire-size overflow, and when every recovery is exhausted.      *)
RunFails(s, h, decision, wireSize) ==
    /\ s \in subscribed
    /\ Running(s)
    /\ SendsSettled
    /\ ~isReinitializing
    /\ NextHandler(h)
    /\ decision = "overflow" => ~contextOverflowHandled
    /\ wireSize => decision \in {"overflow", "await", "exhausted"}
    /\ LET drop  == currentTurnHasOutput \/ wireSize
           reset == ResetRole /\ InFlight \cap Scheduled # {}
           ended == [run EXCEPT ![s] = NoRun]
       IN  /\ IF drop \/ decision = "exhausted"
              THEN RejectAll
              ELSE UNCHANGED <<status, pendingDeliveries, deferred, timer>>
           /\ handlers' = [handlers EXCEPT ![h] =
                             FirstStage(decision, IF drop THEN <<>> ELSE pendingDeliveries)]
           /\ IF reset
              THEN ResetSession(ended)
              ELSE /\ isReinitializing' = (decision \in {"failover", "overflow"})
                   /\ run' = ended
                   /\ UNCHANGED <<session, subscribed, unsubscribeSession, resetInits>>
    /\ deliverySendCount' = 0
    /\ currentTurnHasOutput' = FALSE
    /\ contextOverflowHandled' = (contextOverflowHandled \/ decision = "overflow")
    /\ UNCHANGED <<promptVars, sendVars, processed>>

(* Resend the snapshot after a retry's sleep; what was deferred stays deferred. *)
Resend(h) ==
    LET all  == Elements(handlers[h].snapshot)
        sent == all \ deferred
    IN  /\ handlers' = [handlers EXCEPT ![h] = Finished]
        /\ IF session = 0
           THEN UNCHANGED <<deliverySendCount, timer, failedSends, run>>
           ELSE /\ deliverySendCount' = deliverySendCount + Cardinality(sent)
                /\ timer' = [d \in Deliveries |-> IF d \in sent THEN session
                                                  ELSE IF d \in all THEN DeferTimer
                                                  ELSE timer[d]]
                /\ \E bad \in SUBSET sent :
                    /\ bad # {} => "sendFails" \in Env
                    /\ failedSends' = failedSends \cup [d : bad, on : {session}, release : {FALSE}]
                    /\ run' = Joined(run, session, sent \ bad)
        /\ UNCHANGED <<status, pendingDeliveries, deferred>>

\* The sleep (and the reload behind it) ends: the prompt first, if there is one.
RetryWakes(h) ==
    /\ handlers[h].at = "sleep"
    /\ SendsSettled
    /\ IF handlers[h].prompt /\ session # 0
       THEN /\ pendingPrompt' = TRUE
            /\ \/ /\ run' = Joined(run, session, {Prompt})
                  /\ handlers' = [handlers EXCEPT ![h].at = "prompted"]
               \/ /\ "sendFails" \in Env
                  /\ handlers' = [handlers EXCEPT ![h] = Finished]
                  /\ UNCHANGED run
            /\ UNCHANGED <<queueVars, failedSends>>
       ELSE Resend(h) /\ UNCHANGED pendingPrompt
    /\ UNCHANGED <<sessionVars, promptReload, currentTurnHasOutput, contextOverflowHandled,
                   reloading, processed>>

\* session.prompt of the retry returns (at once on a busy session, else after the run).
RetryPrompted(h) ==
    /\ handlers[h].at = "prompted"
    /\ SendsSettled
    /\ Resend(h)
    /\ UNCHANGED <<sessionVars, promptVars, currentTurnHasOutput, contextOverflowHandled,
                   reloading, processed>>

-----------------------------------------------------------------------------
(* reinitializeWithProvider, and the reset's initialize() *)

\* What follows a reinitializeWithProvider that returned (it never throws).
AfterReinit(rec) ==
    CASE rec.then = "done"    -> Finished
      [] rec.then = "compact" -> [rec EXCEPT !.at = "compact"]
      [] rec.then = "replay"  -> [rec EXCEPT !.at = "recovered"]

\* "Already reinitializing, skipping", or set the flag and await ensureFresh.
StartReinit(h, rec) ==
    /\ handlers' = [handlers EXCEPT ![h] =
                      IF isReinitializing THEN AfterReinit(rec) ELSE [rec EXCEPT !.at = "fresh"]]
    /\ isReinitializing' = TRUE

\* ensureFresh returned: initialize() detaches the old session and awaits the SDK.
FreshEnds(h) ==
    /\ handlers[h].at = "fresh"
    /\ subscribed' = subscribed \ {unsubscribeSession}
    /\ unsubscribeSession' = 0
    /\ run' = Observable(run, subscribed' \cup {session})
    /\ handlers' = [handlers EXCEPT ![h].at = "init"]
    /\ UNCHANGED <<queueVars, session, isReinitializing, resetInits, promptVars,
                   currentTurnHasOutput, contextOverflowHandled, sendVars, processed>>

\* Fault: the new session is installed without a subscription.
InstallDeaf(s) ==
    /\ NewSession(s)
    /\ session' = s
    /\ unsubscribeSession' = s
    /\ isReinitializing' = FALSE
    /\ UNCHANGED subscribed

\* initialize() returned session s and subscribed to it.
Install(s) ==
    /\ NewSession(s)
    /\ session' = s
    /\ subscribed' = subscribed \cup {s}
    /\ unsubscribeSession' = s
    /\ isReinitializing' = FALSE

\* toReplay: the snapshot first, then what was queued since, each in its order.
ReplaysBefore(snap, d, e) ==
    IF d \in Elements(snap)
    THEN e \in Elements(snap) => Position(snap, d) <= Position(snap, e)
    ELSE /\ e \notin Elements(snap)
         /\ Position(pendingDeliveries, d) <= Position(pendingDeliveries, e)

\* Fault: the replay loop resends everything at once.
HeldBackNothing(snap) == {}

(* The replay loop of reinitializeWithProvider holds back an entry that was
   deferred, a second scheduled task, and everything behind either.           *)
HeldBack(snap) ==
    LET all == Elements(snap) \cup Elements(pendingDeliveries)
        Up(d) == {e \in all : ReplaysBefore(snap, e, d)}
    IN  {d \in all : \/ Up(d) \cap deferred # {}
                     \/ \E e, f \in Up(d) \cap Scheduled : e # f}

ReinitSucceeds(h) ==
    /\ handlers[h].at = "init"
    /\ LET rec    == handlers[h]
           snap   == IF rec.then = "done" THEN rec.snapshot ELSE <<>>
           prompt == rec.then = "done" /\ rec.prompt
           held   == HeldBack(snap)
           sent   == (Elements(snap) \cup Elements(pendingDeliveries)) \ held
           back   == held \ Elements(pendingDeliveries)
       IN  \E s \in Sessions :
            /\ Install(s)
            /\ \E readded \in [1..Cardinality(back) -> back] :
                /\ \A i, j \in DOMAIN readded :
                      i < j => readded[i] # readded[j] /\ ReplaysBefore(snap, readded[i], readded[j])
                /\ pendingDeliveries' = pendingDeliveries \o readded
            /\ deliverySendCount' = Cardinality(sent)
            /\ deferred' = (deferred \ sent) \cup held
            /\ timer' = [d \in Deliveries |-> IF d \in sent THEN s
                                              ELSE IF d \in held THEN DeferTimer
                                              ELSE timer[d]]
            /\ \E bad \in SUBSET sent :
                /\ bad # {} => "sendFails" \in Env
                /\ failedSends' = failedSends \cup [d : bad, on : {s}, release : {TRUE}]
                /\ run' = Joined(Observable(run, subscribed'), s,
                                 (sent \ bad) \cup (IF prompt THEN {Prompt} ELSE {}))
            /\ pendingPrompt' = (pendingPrompt \/ prompt)
            /\ handlers' = [handlers EXCEPT ![h] = IF prompt THEN [rec EXCEPT !.at = "reprompted"]
                                                            ELSE AfterReinit(rec)]
    /\ UNCHANGED <<status, resetInits, promptReload, currentTurnHasOutput,
                   contextOverflowHandled, reloading, processed>>

ReinitFails(h) ==
    /\ "initFails" \in Env
    /\ handlers[h].at = "init"
    /\ RejectAll
    /\ deliverySendCount' = 0
    /\ isReinitializing' = FALSE
    /\ handlers' = [handlers EXCEPT ![h] = AfterReinit(handlers[h])]
    /\ UNCHANGED <<session, subscribed, unsubscribeSession, resetInits, promptVars,
                   currentTurnHasOutput, contextOverflowHandled, sendVars, run, processed>>

\* session.prompt of the reinit returns or throws; the finally clears the flag either way.
ReinitPrompted(h) ==
    /\ handlers[h].at = "reprompted"
    /\ isReinitializing' = FALSE
    /\ handlers' = [handlers EXCEPT ![h] = Finished]
    /\ \/ UNCHANGED queueVars
       \/ "sendFails" \in Env /\ RejectAll /\ deliverySendCount' = 0
    /\ UNCHANGED <<session, subscribed, unsubscribeSession, resetInits, promptVars,
                   currentTurnHasOutput, contextOverflowHandled, sendVars, run, processed>>

(* The forced OAuth refresh, compactForProvider or a fruitless overflow recovery
   returned: fail over, compact for the next provider first, or give up.       *)
Awaited(h) ==
    /\ handlers[h].at = "await"
    /\ SendsSettled
    /\ \/ /\ StartReinit(h, handlers[h])
          /\ UNCHANGED <<queueVars>>
       \/ /\ "overflow" \in Decisions
          /\ session # 0
          /\ StartReinit(h, [handlers[h] EXCEPT !.then = "compact", !.after = "failover"])
          /\ UNCHANGED <<queueVars>>
       \/ /\ "exhausted" \in Decisions
          /\ RejectAll
          /\ handlers' = [handlers EXCEPT ![h] = Finished]
          /\ UNCHANGED <<deliverySendCount, isReinitializing>>
    /\ UNCHANGED <<session, subscribed, unsubscribeSession, resetInits, promptVars,
                   currentTurnHasOutput, contextOverflowHandled, sendVars, run, processed>>

(* session.compact() of handleContextOverflow returns or throws. With a tail to
   restore the session is initialized once more; a throw abandons the recovery. *)
CompactEnds(h) ==
    /\ handlers[h].at = "compact"
    /\ LET rec == handlers[h]
       IN  \/ /\ StartReinit(h, [rec EXCEPT !.then = "replay"])
              /\ UNCHANGED contextOverflowHandled
           \/ /\ handlers' = [handlers EXCEPT ![h].at = "recovered"]
              /\ UNCHANGED <<isReinitializing, contextOverflowHandled>>
           \/ /\ "sendFails" \in Env
              /\ rec.after = "replay"
              /\ handlers' = [handlers EXCEPT ![h] = [rec EXCEPT !.at = "await", !.then = "done"]]
              /\ contextOverflowHandled' = FALSE
              /\ UNCHANGED isReinitializing
           \/ /\ "sendFails" \in Env
              /\ rec.after = "failover"
              /\ StartReinit(h, [rec EXCEPT !.then = "done"])
              /\ UNCHANGED contextOverflowHandled
    /\ UNCHANGED <<queueVars, session, subscribed, unsubscribeSession, resetInits, promptVars,
                   currentTurnHasOutput, sendVars, run, processed>>

\* handleContextOverflow succeeded: replayAfterContextOverflow, or the failover it preceded.
Recovered(h) ==
    /\ handlers[h].at = "recovered"
    /\ contextOverflowHandled' = FALSE
    /\ \/ /\ handlers[h].after = "replay"
          /\ pendingPrompt' = FALSE
          /\ handlers' = [handlers EXCEPT ![h] = Finished]
          /\ UNCHANGED <<status, isReinitializing>>
          /\ IF session # 0
             THEN ReplayOn(session, run, pendingDeliveries, 0, {}, failedSends)
             ELSE NoReplay(pendingDeliveries, 0, {}, failedSends) /\ UNCHANGED run
       \/ /\ handlers[h].after = "failover"
          /\ StartReinit(h, [handlers[h] EXCEPT !.then = "done"])
          /\ UNCHANGED <<queueVars, pendingPrompt, failedSends, run>>
    /\ UNCHANGED <<session, subscribed, unsubscribeSession, resetInits, promptReload,
                   currentTurnHasOutput, reloading, processed>>

\* initialize() of a reset or reclaim returned: replay what queued up meanwhile.
ResetSucceeds ==
    /\ resetInits > 0
    /\ resetInits' = resetInits - 1
    /\ \E s \in Sessions :
        /\ Install(s)
        /\ ReplayOn(s, Observable(run, subscribed'), pendingDeliveries, deliverySendCount,
                    {}, failedSends)
    /\ UNCHANGED <<status, promptVars, currentTurnHasOutput, contextOverflowHandled,
                   reloading, handlers, processed>>

ResetFails ==
    /\ "initFails" \in Env
    /\ resetInits > 0
    /\ resetInits' = resetInits - 1
    /\ RejectAll
    /\ deliverySendCount' = 0
    /\ isReinitializing' = FALSE
    /\ UNCHANGED <<session, subscribed, unsubscribeSession, promptVars, currentTurnHasOutput,
                   contextOverflowHandled, sendVars, handlers, run, processed>>

\* reclaimBloatedSession, at the start of a scheduled cycle of a reset role.
Reclaim ==
    /\ "bloated" \in Env
    /\ ResetRole
    /\ ~isReinitializing
    /\ deliverySendCount = 0
    /\ ~pendingPrompt
    /\ ResetSession(run)
    /\ UNCHANGED <<queueVars, promptVars, currentTurnHasOutput, contextOverflowHandled, sendVars,
                   handlers, processed>>

-----------------------------------------------------------------------------
ErrorStep(h) ==
    \/ RetryWakes(h) \/ RetryPrompted(h) \/ Awaited(h) \/ FreshEnds(h)
    \/ ReinitSucceeds(h) \/ ReinitFails(h) \/ ReinitPrompted(h)
    \/ CompactEnds(h) \/ Recovered(h)

Next ==
    \/ \E d \in Deliveries : \/ DeliverRejected(d) \/ DeliverMessage(d)
                             \/ DeferTimeout(d) \/ DispatchTimeout(d)
    \/ \E r \in reloading : ReloadEnds(r)
    \/ \E f \in failedSends : SendFails(f)
    \/ UserPrompt \/ PromptReloadEnds \/ Abort
    \/ \E s \in Sessions : \/ TurnStarts(s) \/ ModelOutput(s) \/ RunEndsUnseen(s)
                           \/ \E errored \in BOOLEAN : RunEnds(s, errored)
                           \/ \E h \in ErrorIds, decision \in Decisions, wireSize \in BOOLEAN :
                                RunFails(s, h, decision, wireSize)
    \/ \E h \in ErrorIds : ErrorStep(h)
    \/ ResetSucceeds \/ ResetFails \/ Reclaim

(* Awaits of the host's own calls end and armed timers fire; strongly fair for the
   error handler, which SendsSettled holds up while a send is on its way. A run ends
   unless its stream may be lost: then only the watchdogs are relied upon.      *)
Fairness ==
    /\ WF_vars(\E r \in reloading : ReloadEnds(r))
    /\ WF_vars(\E f \in failedSends : SendFails(f))
    /\ WF_vars(PromptReloadEnds)
    /\ WF_vars(ResetSucceeds \/ ResetFails)
    /\ \A h \in ErrorIds : SF_vars(ErrorStep(h))
    /\ \A d \in Deliveries : WF_vars(DeferTimeout(d)) /\ WF_vars(DispatchTimeout(d))
    /\ \A s \in Sessions : WF_vars("lostStream" \notin Env /\ RunEnds(s, FALSE))

Spec == Init /\ [][Next]_vars /\ Fairness

-----------------------------------------------------------------------------
(* Types; deliverySendCount is kept at or above zero by every path that lowers it. *)
TypeOK ==
    /\ status \in [Deliveries -> {"new", "pending", "resolved", "rejected"}]
    /\ pendingDeliveries \in Seq(Deliveries)
    /\ deliverySendCount \in Nat
    /\ deferred \subseteq Deliveries
    /\ timer \in [Deliveries -> {NoTimer, DeferTimer} \cup Sessions]
    /\ session \in Sessions \cup {0}
    /\ subscribed \subseteq Sessions
    /\ unsubscribeSession \in Sessions \cup {0}
    /\ isReinitializing \in BOOLEAN
    /\ resetInits \in Nat
    /\ pendingPrompt \in BOOLEAN
    /\ promptReload \in BOOLEAN
    /\ currentTurnHasOutput \in BOOLEAN
    /\ contextOverflowHandled \in BOOLEAN
    /\ reloading \subseteq [d : Deliveries, on : Sessions]
    /\ failedSends \subseteq [d : Deliveries, on : Sessions, release : BOOLEAN]
    /\ handlers \in [ErrorIds -> Handler]
    /\ run \in [Sessions -> [Messages -> Nat]]
    /\ processed \subseteq Deliveries

(* No promise is dropped: whoever awaits a delivery that is not answered yet still
   has its entry in the queue, the only place resolve and reject are kept. Every
   path that takes an entry out of the queue has to settle it.                   *)
NoLostPromise == \A d \in Deliveries : status[d] = "pending" => d \in Elements(pendingDeliveries)

(* An answered entry does not stay queued, where a replay would send it again. *)
SettledLeaveQueue == \A d \in Elements(pendingDeliveries) : status[d] = "pending"

(* "The first deliverySendCount items are exactly the ones in flight" (deliverMessage,
   gate d): agent_end's shift and the scheduled-task check rely on it.          *)
InFlightPrefix ==
    /\ deliverySendCount <= Len(pendingDeliveries)
    /\ \A i \in DOMAIN pendingDeliveries : i > deliverySendCount <=> pendingDeliveries[i] \in deferred

(* A scheduled task shares its run with no other delivery (deliverMessage, gates b
   and c), on whatever path it was dispatched.                                   *)
ScheduledAlone ==
    \A s \in Sessions, d \in Scheduled : run[s][d] > 0 =>
        run[s][d] = 1 /\ \A e \in Deliveries \ {d} : run[s][e] = 0

(* No delivery is in the runs of the live sessions twice: resends after a retry, a
   failover or a reset replace the abandoned send, they do not add to it.       *)
NoDoubleSend ==
    \A d \in Deliveries, s, t \in Sessions : run[s][d] > 0 =>
       run[s][d] = 1 /\ (run[t][d] > 0 => s = t)

(* A sender is told "processed" only after a run with its delivery has ended:
   agent_end resolves by count, so the count must never run ahead of the sends. *)
ResolvedWasProcessed == \A d \in Deliveries : status[d] = "resolved" => d \in processed

(* Outside a reinitialization every unanswered delivery has a watchdog that can act
   on it: a defer timer while it is deferred, or a dispatch timer for the session
   that is still the current one.                                                *)
Watched ==
    \A d \in Deliveries : status[d] = "pending" =>
        \/ timer[d] = DeferTimer /\ d \in deferred
        \/ timer[d] \in Sessions /\ timer[d] = session
        \/ isReinitializing

(* A deferred delivery waits for something: a run whose agent_end dispatches it, a
   reinitialization that replays it, or a send or a recovery still under way.   *)
DeferredHasTrigger == HasDeferred(pendingDeliveries) => Underway

(* isReinitializing is set for as long as an initialize() is under way: deliverMessage,
   prompt, reclaimBloatedSession and error handling all use it to keep away from a
   session that is about to be replaced.                                         *)
ReinitFlagHeld ==
    resetInits > 0 \/ (\E h \in ErrorIds : handlers[h].at \in {"fresh", "init"})
        => isReinitializing

(* A session that deliverMessage would send to is one whose events the host hears. *)
SessionHeard == session # 0 /\ ~isReinitializing => session \in subscribed

(* No run holds a delivery whose sender has been answered: aborted or rejected work
   is not executed after all, where the sender may be redoing it already.       *)
AnsweredNotRunning ==
    \A s \in Sessions, d \in Deliveries : run[s][d] > 0 => status[d] = "pending"

(* deliverMessage "resolves when agent_end confirms the delivery was processed, or
   rejects on permanent failure": every accepted delivery is answered.           *)
Settles == \A d \in Deliveries : status[d] = "pending" ~> status[d] \in {"resolved", "rejected"}

(* What senders are promised, on top of this queue: each accepted delivery is
   executed at most once, and its promise resolves when and only when it is.    *)
Contract == INSTANCE DeliveryContract
    WITH Deliveries <- Deliveries, status <- status, processed <- processed
ContractHolds == Contract!Spec
=============================================================================
