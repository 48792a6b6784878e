------------------------ MODULE AgentDelivery_proofs ------------------------
(***************************************************************************)
(* Theorems about AgentDelivery.                                           *)
(* 1. For every choice of deliveries, sessions, errors, recoveries and     *)
(*    environment: the types of its variables, and that no accepted        *)
(*    delivery ever leaves the queue unanswered.                           *)
(* 2. For roles that keep their session: every unanswered delivery has a   *)
(*    watchdog, whatever errors, recovers or is lost.                      *)
(* 3. Which errors leave the host listening to its session.                *)
(* 4. For hosts none of whose requests errors, with prompts, aborts,       *)
(*    rejected sends, resets and failed resets: the first                  *)
(*    deliverySendCount entries are the ones in flight, a scheduled task   *)
(*    runs alone, nothing is sent twice or after its answer, every         *)
(*    deferred delivery has a trigger and every unanswered one a watchdog, *)
(*    and the host implements DeliveryContract step by step.               *)
(***************************************************************************)
EXTENDS AgentDelivery, FiniteSetTheorems, TLAPS

Statuses == {"new", "pending", "resolved", "rejected"}
Runs     == [Sessions -> [Messages -> Nat]]
Timers   == [Deliveries -> {NoTimer, DeferTimer} \cup Sessions]
Sends    == [d : Deliveries, on : Sessions, release : BOOLEAN]

-----------------------------------------------------------------------------
(* Sequences *)

(* Position finds an index of an element. *)
LEMMA PositionInDomain ==
    ASSUME NEW q \in Seq(Deliveries), NEW d \in Elements(q)
    PROVE  Position(q, d) \in 1..Len(q) /\ q[Position(q, d)] = d
<1>1. \E i \in DOMAIN q : q[i] = d
  BY DEF Elements
<1>2. Position(q, d) \in DOMAIN q /\ q[Position(q, d)] = d
  BY <1>1 DEF Position
<1> QED BY <1>2

(* Without removes one entry of a queue and leaves a queue. *)
LEMMA WithoutType ==
    ASSUME NEW q \in Seq(Deliveries), NEW d \in Deliveries
    PROVE  Without(q, d) \in Seq(Deliveries)
<1>1. CASE d \in Elements(q)
  <2>1. Position(q, d) \in 1..Len(q)
    BY <1>1, PositionInDomain
  <2>2. SubSeq(q, 1, Position(q, d) - 1) \in Seq(Deliveries)
    BY <2>1
  <2>3. SubSeq(q, Position(q, d) + 1, Len(q)) \in Seq(Deliveries)
    BY <2>1
  <2> QED BY <1>1, <2>2, <2>3 DEF Without
<1>2. CASE d \notin Elements(q)
  BY <1>2 DEF Without
<1> QED BY <1>1, <1>2

(* A concatenation has the elements of both its parts. *)
LEMMA ConcatElements ==
    ASSUME NEW a \in Seq(Deliveries), NEW b \in Seq(Deliveries)
    PROVE  /\ a \o b \in Seq(Deliveries)
           /\ Elements(a) \subseteq Elements(a \o b)
           /\ Elements(b) \subseteq Elements(a \o b)
<1>1. /\ a \o b \in Seq(Deliveries) /\ Len(a \o b) = Len(a) + Len(b)
      /\ \A i \in 1..Len(a) : (a \o b)[i] = a[i]
      /\ \A i \in 1..Len(b) : (a \o b)[Len(a) + i] = b[i]
  <2>1. Len(a) \in Nat /\ Len(b) \in Nat
    OBVIOUS
  <2>2. a \o b \in Seq(Deliveries) /\ Len(a \o b) = Len(a) + Len(b)
    OBVIOUS
  <2>3. \A i \in 1..Len(a) : (a \o b)[i] = a[i]
    OBVIOUS
  <2>4. ASSUME NEW i \in 1..Len(b) PROVE (a \o b)[Len(a) + i] = b[i]
    <3>1. Len(a) + i \in 1..(Len(a) + Len(b)) /\ Len(a) + i > Len(a)
      BY <2>1
    <3> QED BY <3>1, <2>1
  <2> QED BY <2>2, <2>3, <2>4
<1>2. \A i \in 1..Len(a) : a[i] \in Elements(a \o b)
  <2>1. \A i \in 1..Len(a) : i \in DOMAIN (a \o b)
    BY <1>1
  <2> QED BY <1>1, <2>1 DEF Elements
<1>3. \A i \in 1..Len(b) : b[i] \in Elements(a \o b)
  <2>1. \A i \in 1..Len(b) : Len(a) + i \in DOMAIN (a \o b)
    BY <1>1
  <2> QED BY <1>1, <2>1 DEF Elements
<1>4. \A x \in Elements(a) : \E i \in 1..Len(a) : x = a[i]
  BY DEF Elements
<1>5. \A x \in Elements(b) : \E i \in 1..Len(b) : x = b[i]
  BY DEF Elements
<1> QED BY <1>1, <1>2, <1>3, <1>4, <1>5

(* Nothing but the removed entry is missing afterwards. *)
LEMMA WithoutElements ==
    ASSUME NEW q \in Seq(Deliveries), NEW d \in Deliveries, NEW e \in Elements(q), e # d
    PROVE  e \in Elements(Without(q, d))
<1>1. CASE d \notin Elements(q)
  BY <1>1 DEF Without
<1>2. CASE d \in Elements(q)
  <2> DEFINE p == Position(q, d)
             a == SubSeq(q, 1, p - 1)
             b == SubSeq(q, p + 1, Len(q))
  <2>1. p \in 1..Len(q) /\ q[p] = d
    BY <1>2, PositionInDomain
  <2>2. a \in Seq(Deliveries) /\ Len(a) = p - 1 /\ \A i \in 1..(p - 1) : a[i] = q[i]
    BY <2>1
  <2>3. /\ b \in Seq(Deliveries) /\ Len(b) = Len(q) - p
        /\ \A i \in 1..(Len(q) - p) : b[i] = q[p + i]
    BY <2>1
  <2>4. PICK i \in 1..Len(q) : q[i] = e
    BY DEF Elements
  <2>5. i # p
    BY <2>1, <2>4
  <2>6. Without(q, d) = a \o b
    BY <1>2 DEF Without
  <2> HIDE DEF p, a, b
  <2>7. CASE i < p
    <3>1. i \in DOMAIN a /\ a[i] = e
      BY <2>1, <2>2, <2>4, <2>7
    <3>2. e \in Elements(a)
      BY <3>1 DEF Elements
    <3> QED BY <2>2, <2>3, <2>6, <3>2, ConcatElements
  <2>8. CASE i > p
    <3>1. i - p \in 1..(Len(q) - p) /\ q[p + (i - p)] = e
      BY <2>1, <2>4, <2>8
    <3>2. i - p \in DOMAIN b /\ b[i - p] = e
      BY <2>3, <3>1
    <3>3. e \in Elements(b)
      BY <3>2 DEF Elements
    <3> QED BY <2>2, <2>3, <2>6, <3>3, ConcatElements
  <2> QED BY <2>1, <2>4, <2>5, <2>7, <2>8
<1> QED BY <1>1, <1>2

(* The elements of a queue are deliveries, finitely many. *)
LEMMA ElementsFinite ==
    ASSUME NEW q \in Seq(Deliveries)
    PROVE  Elements(q) \subseteq Deliveries /\ IsFiniteSet(Elements(q))
<1>1. Elements(q) \subseteq Deliveries
  BY DEF Elements
<1> QED BY <1>1, ConstantsAssumption, FS_Subset

(* A set of deliveries has a natural number of elements. *)
LEMMA CountType ==
    ASSUME NEW S \in SUBSET Deliveries
    PROVE  Cardinality(S) \in Nat
BY ConstantsAssumption, FS_Subset, FS_CardinalityType

(* What replayPendingDeliveries dispatches can be counted. *)
LEMMA DispatchedCount ==
    ASSUME NEW q \in Seq(Deliveries), NEW count \in Nat
    PROVE  Cardinality(Dispatched(q, count)) \in Nat
<1>1. IsFiniteSet((count + 1)..Len(q))
  BY FS_Interval
<1>2. Dispatched(q, count) \subseteq (count + 1)..Len(q)
  BY DEF Dispatched
<1> QED BY <1>1, <1>2, FS_Subset, FS_CardinalityType

-----------------------------------------------------------------------------
(* The operators the actions are built from keep the types *)

(* A settled status is a status, and only pending promises change. *)
LEMMA SettleType ==
    ASSUME NEW S, NEW outcome \in {"resolved", "rejected"},
           status \in [Deliveries -> Statuses]
    PROVE  /\ Settle(S, outcome) \in [Deliveries -> Statuses]
           /\ \A d \in Deliveries :
                Settle(S, outcome)[d] = "pending" => status[d] = "pending" /\ d \notin S
BY DEF Settle, Statuses

(* Watchdogs are disarmed or armed entry by entry. *)
LEMMA TimerType ==
    ASSUME NEW S, NEW t \in {NoTimer, DeferTimer} \cup Sessions, timer \in Timers
    PROVE  Disarm(S) \in Timers /\ Arm(S, t) \in Timers
BY DEF Disarm, Arm, Timers

(* Runs stay runs when messages join one, or the host loses sight of some. *)
LEMMA RunsType ==
    ASSUME NEW r \in Runs, NEW s \in Sessions, NEW S, NEW live
    PROVE  Joined(r, s, S) \in Runs /\ Observable(r, live) \in Runs
<1>1. NoRun \in [Messages -> Nat]
  BY DEF NoRun
<1>2. Observable(r, live) \in Runs
  BY <1>1 DEF Observable, Runs
<1>3. [m \in Messages |-> IF m \in S THEN r[s][m] + 1 ELSE r[s][m]] \in [Messages -> Nat]
  BY DEF Runs
<1>4. Joined(r, s, S) \in Runs
  BY <1>3 DEF Joined, Runs
<1> QED BY <1>2, <1>4

(* The state after a replay. *)
LEMMA ReplayType ==
    ASSUME NEW s \in Sessions, NEW r \in Runs, NEW q \in Seq(Deliveries), NEW count \in Nat,
           NEW out, NEW fails \in SUBSET Sends,
           timer \in Timers, deferred \subseteq Deliveries,
           ReplayOn(s, r, q, count, out, fails)
    PROVE  /\ pendingDeliveries' = q
           /\ deliverySendCount' \in Nat
           /\ deferred' \subseteq Deliveries
           /\ timer' \in Timers
           /\ failedSends' \subseteq Sends
           /\ run' \in Runs
<1> DEFINE sent == {q[i] : i \in Dispatched(q, count)}
<1>1. sent \subseteq Deliveries
  BY DEF Dispatched
<1>2. deliverySendCount' \in Nat
  BY DispatchedCount DEF ReplayOn
<1>3. timer' \in Timers
  BY DEF ReplayOn, Timers
<1>4. PICK bad \in SUBSET sent :
         /\ failedSends' = fails \cup [d : bad, on : {s}, release : {TRUE}]
         /\ run' = Joined(r, s, sent \ bad)
  BY DEF ReplayOn
<1>5. failedSends' \subseteq Sends
  BY <1>1, <1>4 DEF Sends
<1>6. run' \in Runs
  BY <1>4, RunsType
<1> QED BY <1>2, <1>3, <1>5, <1>6 DEF ReplayOn

(* The state after a step that dispatches nothing. *)
LEMMA NoReplayType ==
    ASSUME NEW q \in Seq(Deliveries), NEW count \in Nat, NEW out, NEW fails \in SUBSET Sends,
           timer \in Timers, deferred \subseteq Deliveries,
           NoReplay(q, count, out, fails)
    PROVE  /\ pendingDeliveries' = q
           /\ deliverySendCount' \in Nat
           /\ deferred' \subseteq Deliveries
           /\ timer' \in Timers
           /\ failedSends' \subseteq Sends
BY TimerType DEF NoReplay

-----------------------------------------------------------------------------
(* The inductive invariant. NoLostPromise alone is not inductive only for want of
   types: removing an entry and cutting a prefix keep the others because the queue
   is a sequence and the count a number.                                         *)
IInv == TypeOK /\ NoLostPromise

(* The constants of the handler records have the type they claim. *)
LEMMA HandlerConstants == Idle \in Handler /\ Finished \in Handler
<1>1. <<>> \in Seq(Deliveries)
  OBVIOUS
<1>2. Idle \in Handler
  BY <1>1 DEF Idle, Handler, Stages
<1> QED BY <1>1, <1>2 DEF Idle, Finished, Handler, Stages

(* Initially nothing is queued and nothing is typed wrongly. *)
LEMMA InitIInv == Init => IInv
<1> SUFFICES ASSUME Init PROVE IInv
  OBVIOUS
<1>1. TypeOK
  <2>1. handlers \in [ErrorIds -> Handler]
    BY HandlerConstants DEF Init
  <2>2. run \in [Sessions -> [Messages -> Nat]]
    BY DEF Init, NoRun
  <2>3. /\ status \in [Deliveries -> {"new", "pending", "resolved", "rejected"}]
        /\ timer \in [Deliveries -> {NoTimer, DeferTimer} \cup Sessions]
    BY DEF Init
  <2>4. /\ session \in Sessions \cup {0} /\ unsubscribeSession \in Sessions \cup {0}
        /\ subscribed \subseteq Sessions
    BY ConstantsAssumption DEF Init
  <2>5. /\ pendingDeliveries \in Seq(Deliveries) /\ deliverySendCount \in Nat /\ resetInits \in Nat
    BY DEF Init
  <2> QED BY <2>1, <2>2, <2>3, <2>4, <2>5 DEF Init, TypeOK
<1>2. NoLostPromise
  BY DEF Init, NoLostPromise
<1> QED BY <1>1, <1>2 DEF IInv

(* Rejecting the whole queue answers every pending promise. *)
LEMMA RejectAllStep ==
    ASSUME IInv, RejectAll
    PROVE  /\ status' \in [Deliveries -> Statuses]
           /\ pendingDeliveries' \in Seq(Deliveries)
           /\ deferred' \subseteq Deliveries
           /\ timer' \in Timers
           /\ NoLostPromise'
<1>1. status \in [Deliveries -> Statuses] /\ timer \in Timers
  BY DEF IInv, TypeOK, Statuses, Timers
<1>2. \A d \in Deliveries : status'[d] # "pending"
  BY <1>1, SettleType DEF RejectAll, IInv, NoLostPromise
<1>3. status' \in [Deliveries -> Statuses] /\ timer' \in Timers
  BY <1>1, SettleType, TimerType DEF RejectAll
<1>4. pendingDeliveries' \in Seq(Deliveries) /\ deferred' \subseteq Deliveries
  BY DEF RejectAll, IInv, TypeOK
<1> QED BY <1>2, <1>3, <1>4 DEF NoLostPromise

(* The catch of a send answers the entry it drops. *)
LEMMA SendCatchStep ==
    ASSUME IInv, NEW d \in Deliveries, NEW s \in Sessions,
           NEW out \in {{d}, {d} \cap Elements(pendingDeliveries)}, NEW release,
           NEW fails \in SUBSET Sends,
           SendCatch(d, s, out, release, fails)
    PROVE  /\ status' \in [Deliveries -> Statuses]
           /\ pendingDeliveries' \in Seq(Deliveries)
           /\ deliverySendCount' \in Nat
           /\ deferred' \subseteq Deliveries
           /\ timer' \in Timers
           /\ failedSends' \subseteq Sends
           /\ run' \in Runs
           /\ NoLostPromise'
<1> DEFINE q == Without(pendingDeliveries, d)
<1>1. /\ status \in [Deliveries -> Statuses] /\ timer \in Timers /\ run \in Runs
      /\ pendingDeliveries \in Seq(Deliveries) /\ deferred \subseteq Deliveries
      /\ deliverySendCount \in Nat /\ Decrement(deliverySendCount) \in Nat
  BY DEF IInv, TypeOK, Statuses, Timers, Runs, Decrement
<1>2. q \in Seq(Deliveries)
  BY <1>1, WithoutType
<1>3. CASE session # s
  BY <1>1, <1>3 DEF SendCatch, queueVars, IInv, NoLostPromise
<1>4. CASE session = s
  <2>1. status' = Settle(out, "rejected")
    BY <1>4 DEF SendCatch
  <2>2. \/ ReplayOn(s, run, q, Decrement(deliverySendCount), out, fails)
        \/ NoReplay(q, Decrement(deliverySendCount), out, fails) /\ run' = run
    BY <1>4 DEF SendCatch
  <2> HIDE DEF q
  <2>3. /\ pendingDeliveries' = q /\ deliverySendCount' \in Nat /\ deferred' \subseteq Deliveries
        /\ timer' \in Timers /\ failedSends' \subseteq Sends /\ run' \in Runs
    <3>1. CASE ReplayOn(s, run, q, Decrement(deliverySendCount), out, fails)
      BY <1>1, <1>2, <3>1, ReplayType
    <3>2. CASE NoReplay(q, Decrement(deliverySendCount), out, fails) /\ run' = run
      BY <1>1, <1>2, <3>2, NoReplayType
    <3> QED BY <2>2, <3>1, <3>2
  <2>4. ASSUME NEW e \in Deliveries, status'[e] = "pending"
        PROVE  e \in Elements(q)
    <3>1. status[e] = "pending" /\ e \notin out
      BY <1>1, <2>1, <2>4, SettleType
    <3>2. e \in Elements(pendingDeliveries) /\ e # d
      BY <3>1 DEF IInv, NoLostPromise
    <3> QED BY <1>1, <3>2, WithoutElements DEF q
  <2> QED BY <1>1, <1>2, <2>1, <2>3, <2>4, SettleType DEF NoLostPromise
<1> QED BY <1>3, <1>4

(* Tearing the session down, and installing a new one. *)
LEMMA ResetSessionType ==
    ASSUME TypeOK, NEW newRun \in Runs, ResetSession(newRun)
    PROVE  /\ session' \in Sessions \cup {0} /\ subscribed' \subseteq Sessions
           /\ unsubscribeSession' \in Sessions \cup {0} /\ isReinitializing' \in BOOLEAN
           /\ resetInits' \in Nat /\ run' \in Runs
<1>1. run' \in Runs
  <2>1. \A live : Observable(newRun, live) \in Runs
    BY ConstantsAssumption, RunsType
  <2> QED BY <2>1 DEF ResetSession
<1> QED BY <1>1 DEF ResetSession, TypeOK

(* A newly installed session is the current one. *)
LEMMA InstallType ==
    ASSUME TypeOK, NEW s \in Sessions, Install(s)
    PROVE  /\ session' \in Sessions \cup {0} /\ subscribed' \subseteq Sessions
           /\ unsubscribeSession' \in Sessions \cup {0} /\ isReinitializing' \in BOOLEAN
BY DEF Install, TypeOK

-----------------------------------------------------------------------------
(* Deliveries and prompts *)

(* A refusal answers the sender and queues nothing. *)
LEMMA DeliverRejectedStep ==
    ASSUME IInv, NEW d \in Deliveries, DeliverRejected(d)
    PROVE  IInv'
<1>1. TypeOK'
  BY DEF IInv, TypeOK, DeliverRejected, sessionVars, promptVars, sendVars
<1>2. NoLostPromise'
  BY DEF IInv, TypeOK, NoLostPromise, DeliverRejected
<1> QED BY <1>1, <1>2 DEF IInv

(* The new entry is appended: whatever was queued still is. *)
LEMMA DeliverMessageStep ==
    ASSUME IInv, NEW d \in Deliveries, DeliverMessage(d)
    PROVE  IInv'
<1>1. /\ pendingDeliveries \in Seq(Deliveries) /\ timer \in Timers
      /\ session \in Sessions \cup {0} /\ <<d>> \in Seq(Deliveries)
  BY DEF IInv, TypeOK, Timers
<1>2. pendingDeliveries' = pendingDeliveries \o <<d>>
  BY <1>1 DEF DeliverMessage
<1>3. timer' \in Timers /\ reloading' \subseteq [d : Deliveries, on : Sessions]
  <2>1. CASE Gated(d)
    BY <1>1, <2>1, TimerType DEF DeliverMessage, IInv, TypeOK
  <2>2. CASE ~Gated(d)
    <3>1. session \in Sessions
      BY <1>1, <2>2 DEF Gated
    <3> QED BY <1>1, <2>2, <3>1, TimerType DEF DeliverMessage, IInv, TypeOK
  <2> QED BY <2>1, <2>2
<1>4. TypeOK'
  <2>1. pendingDeliveries' \in Seq(Deliveries)
    BY <1>1, <1>2, ConcatElements
  <2>2. /\ status' \in [Deliveries -> {"new", "pending", "resolved", "rejected"}]
        /\ deferred' \subseteq Deliveries /\ deliverySendCount' \in Nat
    BY DEF DeliverMessage, IInv, TypeOK
  <2> QED BY <1>3, <2>1, <2>2
        DEF IInv, TypeOK, Timers, DeliverMessage, sessionVars, promptVars
<1>5. NoLostPromise'
  <2>1. d \in Elements(<<d>>)
    BY DEF Elements
  <2>2. d \in Elements(pendingDeliveries')
    BY <1>1, <1>2, <2>1, ConcatElements
  <2>3. ASSUME NEW e \in Deliveries, e # d, status'[e] = "pending"
        PROVE  e \in Elements(pendingDeliveries')
    BY <1>1, <1>2, <2>3, ConcatElements DEF DeliverMessage, IInv, TypeOK, NoLostPromise
  <2> QED BY <2>2, <2>3 DEF NoLostPromise
<1> QED BY <1>4, <1>5 DEF IInv

(* A first send joins a run, or its catch answers the sender. *)
LEMMA ReloadEndsStep ==
    ASSUME IInv, NEW r \in reloading, ReloadEnds(r)
    PROVE  IInv'
<1>1. r.d \in Deliveries /\ r.on \in Sessions /\ run \in Runs /\ failedSends \in SUBSET Sends
  BY DEF IInv, TypeOK, Runs, Sends
<1>2. CASE UNCHANGED <<queueVars, failedSends>>
           /\ run' = IF r.on \in subscribed \cup {session} THEN Joined(run, r.on, {r.d}) ELSE run
  <2>1. run' \in Runs
    BY <1>1, <1>2, RunsType
  <2> QED BY <1>2, <2>1
        DEF ReloadEnds, IInv, TypeOK, NoLostPromise, Runs, queueVars, sessionVars, promptVars
<1>3. CASE SendCatch(r.d, r.on, {r.d} \cap Elements(pendingDeliveries), TRUE, failedSends)
  BY <1>1, <1>3, SendCatchStep
     DEF ReloadEnds, IInv, TypeOK, Statuses, Timers, Sends, Runs, sessionVars, promptVars
<1> QED BY <1>2, <1>3 DEF ReloadEnds

(* A replayed or retried send that is rejected answers its sender. *)
LEMMA SendFailsStep ==
    ASSUME IInv, NEW f \in failedSends, SendFails(f)
    PROVE  IInv'
<1>1. f.d \in Deliveries /\ f.on \in Sessions /\ failedSends \ {f} \in SUBSET Sends
  BY DEF IInv, TypeOK, Sends
<1>2. SendCatch(f.d, f.on, {f.d}, f.release, failedSends \ {f})
  BY DEF SendFails
<1> QED BY <1>1, <1>2, SendCatchStep
     DEF SendFails, IInv, TypeOK, Statuses, Timers, Sends, Runs, sessionVars, promptVars

(* Prompts do not touch the queue. *)
LEMMA PromptStep ==
    ASSUME IInv, UserPrompt \/ PromptReloadEnds
    PROVE  IInv'
<1>1. CASE UserPrompt
  BY <1>1 DEF UserPrompt, IInv, TypeOK, NoLostPromise, queueVars, sessionVars, sendVars
<1>2. CASE PromptReloadEnds
  <2>1. run' \in Runs
    BY <1>2, RunsType DEF PromptReloadEnds, IInv, TypeOK, Runs
  <2> QED BY <1>2, <2>1
        DEF PromptReloadEnds, IInv, TypeOK, NoLostPromise, Runs, queueVars, sessionVars, sendVars
<1> QED BY <1>1, <1>2

(* abort() answers every sender. *)
LEMMA AbortStep ==
    ASSUME IInv, Abort
    PROVE  IInv'
<1>1. run' \in Runs
  BY DEF Abort, IInv, TypeOK, Runs, NoRun
<1> QED BY <1>1, RejectAllStep
     DEF Abort, IInv, TypeOK, Statuses, Timers, Runs, sessionVars, sendVars

-----------------------------------------------------------------------------
(* Watchdogs: the entry that is dropped is answered *)

(* An entry that stayed deferred too long is dropped and rejected. *)
LEMMA DeferTimeoutStep ==
    ASSUME IInv, NEW d \in Deliveries, DeferTimeout(d)
    PROVE  IInv'
<1>1. status \in [Deliveries -> Statuses] /\ timer \in Timers /\ pendingDeliveries \in Seq(Deliveries)
  BY DEF IInv, TypeOK, Statuses, Timers
<1>2. /\ status' \in [Deliveries -> Statuses] /\ timer' \in Timers
      /\ pendingDeliveries' \in Seq(Deliveries)
  BY <1>1, SettleType, TimerType, WithoutType DEF DeferTimeout
<1>3. TypeOK'
  BY <1>2 DEF DeferTimeout, IInv, TypeOK, Statuses, Timers, sessionVars, promptVars, sendVars
<1>4. ASSUME NEW e \in Deliveries, status'[e] = "pending"
      PROVE  e \in Elements(pendingDeliveries')
  <2>1. CASE d \in Elements(pendingDeliveries) /\ d \in deferred
    <3>1. status' = Settle({d}, "rejected") /\ pendingDeliveries' = Without(pendingDeliveries, d)
      BY <2>1 DEF DeferTimeout
    <3>2. status[e] = "pending" /\ e # d
      BY <1>1, <1>4, <3>1, SettleType
    <3> QED BY <1>1, <3>1, <3>2, WithoutElements DEF IInv, NoLostPromise
  <2>2. CASE ~(d \in Elements(pendingDeliveries) /\ d \in deferred)
    BY <1>4, <2>2 DEF DeferTimeout, IInv, NoLostPromise
  <2> QED BY <2>1, <2>2
<1> QED BY <1>3, <1>4 DEF IInv, NoLostPromise

(* An entry whose run never ended is dropped and rejected, and the gate released. *)
LEMMA DispatchTimeoutStep ==
    ASSUME IInv, NEW d \in Deliveries, DispatchTimeout(d)
    PROVE  IInv'
<1> DEFINE q == Without(pendingDeliveries, d)
           count == Decrement(deliverySendCount)
<1>1. /\ status \in [Deliveries -> Statuses] /\ timer \in Timers /\ run \in Runs
      /\ pendingDeliveries \in Seq(Deliveries) /\ deferred \subseteq Deliveries
      /\ failedSends \in SUBSET Sends /\ count \in Nat /\ timer[d] \in Sessions
  BY DEF IInv, TypeOK, Statuses, Timers, Runs, Sends, Decrement, DispatchTimeout
<1>2. q \in Seq(Deliveries)
  BY <1>1, WithoutType
<1>3. CASE timer[d] = session /\ d \in Elements(pendingDeliveries)
  <2>1. status' = Settle({d}, "rejected") /\ currentTurnHasOutput' = FALSE
    BY <1>3 DEF DispatchTimeout
  <2>2. \/ ReplayOn(session, run, q, count, {d}, failedSends)
        \/ NoReplay(q, count, {d}, failedSends) /\ run' = run
    BY <1>3 DEF DispatchTimeout
  <2> HIDE DEF q, count
  <2>3. /\ pendingDeliveries' = q /\ deliverySendCount' \in Nat /\ deferred' \subseteq Deliveries
        /\ timer' \in Timers /\ failedSends' \subseteq Sends /\ run' \in Runs
    <3>1. CASE ReplayOn(session, run, q, count, {d}, failedSends)
      <4>1. session \in Sessions
        BY <1>1, <1>3
      <4> QED BY <1>1, <1>2, <3>1, <4>1, ReplayType
    <3>2. CASE NoReplay(q, count, {d}, failedSends) /\ run' = run
      BY <1>1, <1>2, <3>2, NoReplayType
    <3> QED BY <2>2, <3>1, <3>2
  <2>4. TypeOK'
    BY <1>1, <1>2, <2>1, <2>3, SettleType
       DEF DispatchTimeout, IInv, TypeOK, Statuses, Timers, Runs, Sends, sessionVars, promptVars
  <2>5. ASSUME NEW e \in Deliveries, status'[e] = "pending"
        PROVE  e \in Elements(q)
    <3>1. status[e] = "pending" /\ e # d
      BY <1>1, <2>1, <2>5, SettleType
    <3> QED BY <1>1, <3>1, WithoutElements DEF q, IInv, NoLostPromise
  <2> QED BY <2>3, <2>4, <2>5 DEF IInv, NoLostPromise
<1>4. CASE ~(timer[d] = session /\ d \in Elements(pendingDeliveries))
  <2>1. timer' \in Timers
    BY <1>1, <1>4, TimerType DEF DispatchTimeout
  <2>2. UNCHANGED <<status, pendingDeliveries, deliverySendCount, deferred, failedSends,
                    currentTurnHasOutput, run>>
    BY <1>4 DEF DispatchTimeout
  <2> QED BY <2>1, <2>2
        DEF DispatchTimeout, IInv, TypeOK, NoLostPromise, Timers, sessionVars, promptVars
<1> QED BY <1>3, <1>4

-----------------------------------------------------------------------------
(* Events of a session *)

(* Turn starts and model output only flip a flag. *)
LEMMA TurnStep ==
    ASSUME IInv, NEW s \in Sessions, TurnStarts(s) \/ ModelOutput(s)
    PROVE  IInv'
BY DEF TurnStarts, ModelOutput, IInv, TypeOK, NoLostPromise, queueVars, sessionVars,
       promptVars, sendVars

(* A run nobody listens to changes nothing in the host. *)
LEMMA RunEndsUnseenStep ==
    ASSUME IInv, NEW s \in Sessions, RunEndsUnseen(s)
    PROVE  IInv'
<1>1. run' \in Runs
  BY DEF RunEndsUnseen, IInv, TypeOK, Runs, NoRun
<1> QED BY <1>1
     DEF RunEndsUnseen, IInv, TypeOK, NoLostPromise, Runs, queueVars, sessionVars,
         promptVars, sendVars

(* The queue is cut after the entries in flight: each entry is on one side of the cut. *)
LEMMA CutElements ==
    ASSUME NEW q \in Seq(Deliveries), NEW k \in 0..Len(q)
    PROVE  /\ SubSeq(q, k + 1, Len(q)) \in Seq(Deliveries)
           /\ \A e \in Elements(q) :
                e \in {q[i] : i \in 1..k} \/ e \in Elements(SubSeq(q, k + 1, Len(q)))
<1> DEFINE b == SubSeq(q, k + 1, Len(q))
<1>1. /\ b \in Seq(Deliveries) /\ Len(b) = Len(q) - k
      /\ \A i \in 1..(Len(q) - k) : b[i] = q[k + i]
  OBVIOUS
<1> HIDE DEF b
<1>2. ASSUME NEW e \in Elements(q), e \notin {q[i] : i \in 1..k}
      PROVE  e \in Elements(b)
  <2>1. PICK i \in 1..Len(q) : q[i] = e
    BY DEF Elements
  <2>2. i - k \in 1..(Len(q) - k) /\ q[k + (i - k)] = e
    BY <1>2, <2>1
  <2>3. i - k \in DOMAIN b /\ b[i - k] = e
    BY <1>1, <2>2
  <2> QED BY <2>3 DEF Elements
<1> QED BY <1>1, <1>2 DEF b

(* agent_end resolves what it takes off the queue, by the same count. *)
LEMMA RunEndsStep ==
    ASSUME IInv, NEW s \in Sessions, NEW errored \in BOOLEAN, RunEnds(s, errored)
    PROVE  IInv'
<1> DEFINE k == Smaller(deliverySendCount, Len(pendingDeliveries))
           rest == SubSeq(pendingDeliveries, k + 1, Len(pendingDeliveries))
           ended == [run EXCEPT ![s] = NoRun]
<1>1. /\ status \in [Deliveries -> Statuses] /\ timer \in Timers /\ run \in Runs
      /\ pendingDeliveries \in Seq(Deliveries) /\ deferred \subseteq Deliveries
      /\ failedSends \in SUBSET Sends /\ session \in Sessions \cup {0}
      /\ deliverySendCount \in Nat /\ k \in 0..Len(pendingDeliveries)
  BY DEF IInv, TypeOK, Statuses, Timers, Runs, Sends, Smaller
<1>2. /\ rest \in Seq(Deliveries)
      /\ \A e \in Elements(pendingDeliveries) : e \in InFlight \/ e \in Elements(rest)
  BY <1>1, CutElements DEF InFlight
<1>3. ended \in Runs
  BY <1>1 DEF Runs, NoRun
<1>4. status' = Settle(InFlight, "resolved")
  BY DEF RunEnds
<1>5. \/ ResetSession(ended) /\ NoReplay(rest, 0, InFlight, failedSends)
      \/ /\ UNCHANGED sessionVars /\ session # 0
         /\ ReplayOn(session, ended, rest, 0, InFlight, failedSends)
      \/ UNCHANGED sessionVars /\ NoReplay(rest, 0, InFlight, failedSends) /\ run' = ended
  BY DEF RunEnds
<1>6. /\ processed' \subseteq Deliveries /\ pendingPrompt' = FALSE /\ currentTurnHasOutput' = FALSE
      /\ UNCHANGED <<promptReload, contextOverflowHandled, reloading, handlers>>
  BY DEF RunEnds, IInv, TypeOK
<1> HIDE DEF k, rest, ended
<1>7. /\ pendingDeliveries' = rest /\ deliverySendCount' \in Nat /\ deferred' \subseteq Deliveries
      /\ timer' \in Timers /\ failedSends' \subseteq Sends /\ run' \in Runs
      /\ session' \in Sessions \cup {0} /\ subscribed' \subseteq Sessions
      /\ unsubscribeSession' \in Sessions \cup {0} /\ isReinitializing' \in BOOLEAN
      /\ resetInits' \in Nat
  <2>1. CASE ResetSession(ended) /\ NoReplay(rest, 0, InFlight, failedSends)
    <3>1. TypeOK
      BY DEF IInv
    <3> QED BY <1>1, <1>2, <1>3, <2>1, <3>1, ResetSessionType, NoReplayType
  <2>2. CASE /\ UNCHANGED sessionVars /\ session # 0
             /\ ReplayOn(session, ended, rest, 0, InFlight, failedSends)
    <3>1. session \in Sessions
      BY <1>1, <2>2
    <3>2. /\ pendingDeliveries' = rest /\ deliverySendCount' \in Nat
          /\ deferred' \subseteq Deliveries /\ timer' \in Timers
          /\ failedSends' \subseteq Sends /\ run' \in Runs
      BY <1>1, <1>2, <1>3, <2>2, <3>1, ReplayType
    <3> QED BY <2>2, <3>2 DEF IInv, TypeOK, sessionVars
  <2>3. CASE UNCHANGED sessionVars /\ NoReplay(rest, 0, InFlight, failedSends) /\ run' = ended
    <3>1. /\ pendingDeliveries' = rest /\ deliverySendCount' \in Nat
          /\ deferred' \subseteq Deliveries /\ timer' \in Timers /\ failedSends' \subseteq Sends
      BY <1>1, <1>2, <2>3, NoReplayType
    <3> QED BY <1>3, <2>3, <3>1 DEF IInv, TypeOK, sessionVars
  <2> QED BY <1>5, <2>1, <2>2, <2>3
<1>8. TypeOK'
  BY <1>1, <1>2, <1>4, <1>6, <1>7, SettleType DEF IInv, TypeOK, Statuses, Timers, Runs, Sends
<1>9. ASSUME NEW e \in Deliveries, status'[e] = "pending"
      PROVE  e \in Elements(rest)
  <2>1. status[e] = "pending" /\ e \notin InFlight
    BY <1>1, <1>4, <1>9, SettleType
  <2> QED BY <1>2, <2>1 DEF IInv, NoLostPromise
<1> QED BY <1>7, <1>8, <1>9 DEF IInv, NoLostPromise

-----------------------------------------------------------------------------
(* The error handler *)

(* Where a handler goes next is a handler record. *)
LEMMA HandlerType ==
    ASSUME NEW rec \in Handler, NEW stage \in Stages
    PROVE  /\ [rec EXCEPT !.at = stage] \in Handler
           /\ [rec EXCEPT !.then = "done"] \in Handler
           /\ [rec EXCEPT !.at = stage, !.then = "done"] \in Handler
           /\ [rec EXCEPT !.then = "replay"] \in Handler
           /\ [rec EXCEPT !.then = "compact", !.after = "failover"] \in Handler
           /\ AfterReinit(rec) \in Handler
<1>1. /\ [rec EXCEPT !.at = stage] \in Handler
      /\ [rec EXCEPT !.then = "done"] \in Handler
      /\ [rec EXCEPT !.at = stage, !.then = "done"] \in Handler
      /\ [rec EXCEPT !.then = "replay"] \in Handler
      /\ [rec EXCEPT !.then = "compact", !.after = "failover"] \in Handler
  BY DEF Handler
<1>2. [rec EXCEPT !.at = "compact"] \in Handler /\ [rec EXCEPT !.at = "recovered"] \in Handler
  BY DEF Handler, Stages
<1>3. rec.then \in {"done", "compact", "replay"}
  BY DEF Handler
<1>4. AfterReinit(rec) \in Handler
  BY <1>2, <1>3, HandlerConstants DEF AfterReinit
<1> QED BY <1>1, <1>4

(* The first stage of an error handler is a handler record. *)
LEMMA FirstStageType ==
    ASSUME NEW decision, NEW q \in Seq(Deliveries), pendingPrompt \in BOOLEAN
    PROVE  FirstStage(decision, q) \in Handler
<1> DEFINE rec == [Idle EXCEPT !.snapshot = q, !.prompt = pendingPrompt]
<1>1. rec \in Handler
  BY HandlerConstants DEF Handler
<1> HIDE DEF rec
<1>2. /\ [rec EXCEPT !.at = "sleep"] \in Handler /\ [rec EXCEPT !.at = "await"] \in Handler
      /\ [rec EXCEPT !.at = "fresh"] \in Handler
      /\ [rec EXCEPT !.at = "fresh", !.then = "compact"] \in Handler
  BY <1>1 DEF Handler, Stages
<1>3. \/ FirstStage(decision, q) = [rec EXCEPT !.at = "sleep"]
      \/ FirstStage(decision, q) = [rec EXCEPT !.at = "await"]
      \/ FirstStage(decision, q) = [rec EXCEPT !.at = "fresh"]
      \/ FirstStage(decision, q) = [rec EXCEPT !.at = "fresh", !.then = "compact"]
      \/ FirstStage(decision, q) = Finished
  BY DEF FirstStage, rec
<1> QED BY <1>2, <1>3, HandlerConstants

(* Starting a reinitialization touches only the handler and the flag. *)
LEMMA StartReinitType ==
    ASSUME NEW h \in ErrorIds, NEW rec \in Handler, handlers \in [ErrorIds -> Handler],
           StartReinit(h, rec)
    PROVE  handlers' \in [ErrorIds -> Handler] /\ isReinitializing' \in BOOLEAN
<1>1. AfterReinit(rec) \in Handler /\ [rec EXCEPT !.at = "fresh"] \in Handler
  BY HandlerType DEF Stages
<1> QED BY <1>1 DEF StartReinit

(* The synchronous part of handlePotentialError keeps the queue or rejects all of it. *)
LEMMA RunFailsStep ==
    ASSUME IInv, NEW s \in Sessions, NEW h \in ErrorIds, NEW decision, NEW wireSize,
           RunFails(s, h, decision, wireSize)
    PROVE  IInv'
<1> DEFINE ended == [run EXCEPT ![s] = NoRun]
           drop  == currentTurnHasOutput \/ wireSize
<1>1. ended \in Runs /\ TypeOK /\ pendingDeliveries \in Seq(Deliveries)
  BY DEF IInv, TypeOK, Runs, NoRun
<1>2. /\ status' \in [Deliveries -> Statuses] /\ pendingDeliveries' \in Seq(Deliveries)
      /\ deferred' \subseteq Deliveries /\ timer' \in Timers /\ NoLostPromise'
  <2>1. CASE RejectAll
    BY <2>1, RejectAllStep
  <2>2. CASE UNCHANGED <<status, pendingDeliveries, deferred, timer>>
    BY <2>2 DEF IInv, TypeOK, NoLostPromise, Statuses, Timers
  <2> QED BY <2>1, <2>2 DEF RunFails
<1>3. handlers' \in [ErrorIds -> Handler]
  <2>1. (IF drop THEN <<>> ELSE pendingDeliveries) \in Seq(Deliveries)
    BY <1>1
  <2>2. FirstStage(decision, IF drop THEN <<>> ELSE pendingDeliveries) \in Handler
    BY <1>1, <2>1, FirstStageType DEF TypeOK
  <2>3. handlers' = [handlers EXCEPT ![h] =
                       FirstStage(decision, IF drop THEN <<>> ELSE pendingDeliveries)]
    BY DEF RunFails
  <2> QED BY <1>1, <2>2, <2>3 DEF TypeOK
<1>4. /\ session' \in Sessions \cup {0} /\ subscribed' \subseteq Sessions
      /\ unsubscribeSession' \in Sessions \cup {0} /\ isReinitializing' \in BOOLEAN
      /\ resetInits' \in Nat /\ run' \in Runs
  <2>1. CASE ResetSession(ended)
    BY <1>1, <2>1, ResetSessionType
  <2>2. CASE /\ isReinitializing' = (decision \in {"failover", "overflow"})
             /\ run' = ended
             /\ UNCHANGED <<session, subscribed, unsubscribeSession, resetInits>>
    BY <1>1, <2>2 DEF TypeOK
  <2> QED BY <2>1, <2>2 DEF RunFails
<1>5. /\ deliverySendCount' = 0 /\ currentTurnHasOutput' = FALSE
      /\ contextOverflowHandled' \in BOOLEAN /\ UNCHANGED <<promptVars, sendVars, processed>>
  BY <1>1 DEF RunFails, TypeOK
<1>6. TypeOK'
  BY <1>1, <1>2, <1>3, <1>4, <1>5 DEF TypeOK, Statuses, Timers, Runs, promptVars, sendVars
<1> QED BY <1>2, <1>6 DEF IInv

(* A retry resends entries but neither queues nor settles any. *)
LEMMA ResendType ==
    ASSUME IInv, NEW h \in ErrorIds, Resend(h)
    PROVE  /\ handlers' \in [ErrorIds -> Handler] /\ deliverySendCount' \in Nat
           /\ timer' \in Timers /\ failedSends' \subseteq Sends /\ run' \in Runs
           /\ UNCHANGED <<status, pendingDeliveries, deferred>>
<1> DEFINE all  == Elements(handlers[h].snapshot)
           sent == all \ deferred
<1>1. /\ handlers \in [ErrorIds -> Handler] /\ deliverySendCount \in Nat /\ timer \in Timers
      /\ failedSends \subseteq Sends /\ run \in Runs /\ session \in Sessions \cup {0}
  BY DEF IInv, TypeOK, Timers, Sends, Runs
<1>2. handlers' \in [ErrorIds -> Handler]
  BY <1>1, HandlerConstants DEF Resend
<1>3. handlers[h].snapshot \in Seq(Deliveries)
  BY <1>1 DEF Handler
<1>4. sent \subseteq Deliveries /\ Cardinality(sent) \in Nat
  BY <1>3, ElementsFinite, CountType
<1>5. CASE session = 0
  BY <1>1, <1>2, <1>5 DEF Resend
<1>6. CASE session # 0
  <2>1. session \in Sessions
    BY <1>1, <1>6
  <2>2. deliverySendCount' = deliverySendCount + Cardinality(sent)
    BY <1>6 DEF Resend
  <2>3. timer' = [d \in Deliveries |-> IF d \in sent THEN session
                                        ELSE IF d \in all THEN DeferTimer ELSE timer[d]]
    BY <1>6 DEF Resend
  <2>4. PICK bad \in SUBSET sent :
           /\ failedSends' = failedSends \cup [d : bad, on : {session}, release : {FALSE}]
           /\ run' = Joined(run, session, sent \ bad)
    BY <1>6 DEF Resend
  <2>5. timer' \in Timers
    BY <1>1, <2>1, <2>3 DEF Timers
  <2>6. failedSends' \subseteq Sends
    BY <1>1, <1>4, <2>1, <2>4 DEF Sends
  <2>7. run' \in Runs
    BY <1>1, <2>1, <2>4, RunsType
  <2> QED BY <1>1, <1>2, <1>4, <2>2, <2>5, <2>6, <2>7 DEF Resend
<1> QED BY <1>5, <1>6

(* A retry that wakes leaves the queue alone. *)
LEMMA RetryStep ==
    ASSUME IInv, NEW h \in ErrorIds, RetryWakes(h) \/ RetryPrompted(h)
    PROVE  IInv'
<1>1. CASE Resend(h)
  <2>1. pendingPrompt' \in BOOLEAN
    BY DEF IInv, TypeOK, RetryWakes, RetryPrompted, promptVars
  <2>2. UNCHANGED <<sessionVars, promptReload, currentTurnHasOutput, contextOverflowHandled,
                    reloading, processed>>
    BY DEF RetryWakes, RetryPrompted, promptVars
  <2> QED BY <1>1, <2>1, <2>2, ResendType
        DEF IInv, TypeOK, NoLostPromise, Timers, Sends, Runs, sessionVars
<1>2. CASE RetryWakes(h) /\ handlers[h].prompt /\ session # 0
  <2>1. session \in Sessions /\ run \in Runs /\ handlers \in [ErrorIds -> Handler]
    BY <1>2 DEF IInv, TypeOK, Runs
  <2>2. run' \in Runs
    BY <1>2, <2>1, RunsType DEF RetryWakes
  <2>3. [handlers[h] EXCEPT !.at = "prompted"] \in Handler
    BY <2>1, HandlerType DEF Stages
  <2>4. \/ handlers' = [handlers EXCEPT ![h] = [handlers[h] EXCEPT !.at = "prompted"]]
        \/ handlers' = [handlers EXCEPT ![h] = Finished]
    BY <1>2 DEF RetryWakes
  <2>5. handlers' \in [ErrorIds -> Handler]
    BY <2>1, <2>3, <2>4, HandlerConstants
  <2> QED BY <1>2, <2>2, <2>5
        DEF RetryWakes, IInv, TypeOK, NoLostPromise, Runs, queueVars, sessionVars
<1> QED BY <1>1, <1>2 DEF RetryWakes, RetryPrompted

(* Detaching the old session leaves the queue alone. *)
LEMMA FreshEndsStep ==
    ASSUME IInv, NEW h \in ErrorIds, FreshEnds(h)
    PROVE  IInv'
<1>1. run \in Runs /\ handlers \in [ErrorIds -> Handler]
  BY DEF IInv, TypeOK, Runs
<1>2. run' \in Runs
  <2>1. \A live : Observable(run, live) \in Runs
    BY <1>1, ConstantsAssumption, RunsType
  <2> QED BY <2>1 DEF FreshEnds
<1>3. handlers' \in [ErrorIds -> Handler]
  BY <1>1, HandlerType DEF FreshEnds, Stages
<1> QED BY <1>2, <1>3
     DEF FreshEnds, IInv, TypeOK, NoLostPromise, Runs, queueVars, promptVars, sendVars

(* The replay of a reinitialization re-adds entries to the queue and settles none. *)
LEMMA ReinitSucceedsStep ==
    ASSUME IInv, NEW h \in ErrorIds, ReinitSucceeds(h)
    PROVE  IInv'
<1> DEFINE rec    == handlers[h]
           snap   == IF rec.then = "done" THEN rec.snapshot ELSE <<>>
           prompt == rec.then = "done" /\ rec.prompt
           held   == HeldBack(snap)
           sent   == (Elements(snap) \cup Elements(pendingDeliveries)) \ held
           back   == held \ Elements(pendingDeliveries)
<1>1. /\ TypeOK /\ run \in Runs /\ timer \in Timers /\ failedSends \subseteq Sends
      /\ handlers \in [ErrorIds -> Handler] /\ pendingDeliveries \in Seq(Deliveries)
  BY DEF IInv, TypeOK, Runs, Timers, Sends
<1>2. rec \in Handler /\ snap \in Seq(Deliveries)
  BY <1>1 DEF Handler
<1>3. held \subseteq Deliveries /\ sent \subseteq Deliveries /\ back \subseteq Deliveries
  <2>1. HeldBack(snap) \subseteq Elements(snap) \cup Elements(pendingDeliveries)
    BY DEF HeldBack
  <2> QED BY <1>1, <1>2, <2>1, ElementsFinite
<1>4. Cardinality(sent) \in Nat /\ Cardinality(back) \in Nat
  BY <1>3, CountType
<1>5. PICK s \in Sessions :
        /\ Install(s)
        /\ \E readded \in [1..Cardinality(back) -> back] :
              pendingDeliveries' = pendingDeliveries \o readded
        /\ timer' = [d \in Deliveries |-> IF d \in sent THEN s
                                          ELSE IF d \in held THEN DeferTimer
                                          ELSE timer[d]]
        /\ \E bad \in SUBSET sent :
              /\ failedSends' = failedSends \cup [d : bad, on : {s}, release : {TRUE}]
              /\ run' = Joined(Observable(run, subscribed'), s,
                               (sent \ bad) \cup (IF prompt THEN {Prompt} ELSE {}))
  BY DEF ReinitSucceeds
<1>6. /\ deliverySendCount' = Cardinality(sent)
      /\ deferred' = (deferred \ sent) \cup held
      /\ pendingPrompt' = (pendingPrompt \/ prompt)
      /\ handlers' = [handlers EXCEPT ![h] = IF prompt THEN [rec EXCEPT !.at = "reprompted"]
                                                       ELSE AfterReinit(rec)]
      /\ UNCHANGED <<status, resetInits, promptReload, currentTurnHasOutput,
                     contextOverflowHandled, reloading, processed>>
  BY DEF ReinitSucceeds
<1> HIDE DEF held, sent, back
<1>7. PICK readded \in [1..Cardinality(back) -> back] :
        pendingDeliveries' = pendingDeliveries \o readded
  BY <1>5
<1>8. /\ pendingDeliveries' \in Seq(Deliveries)
      /\ Elements(pendingDeliveries) \subseteq Elements(pendingDeliveries')
  <2>1. readded \in Seq(Deliveries)
    BY <1>3, <1>4
  <2> QED BY <1>1, <1>7, <2>1, ConcatElements
<1>9. PICK bad \in SUBSET sent :
        /\ failedSends' = failedSends \cup [d : bad, on : {s}, release : {TRUE}]
        /\ run' = Joined(Observable(run, subscribed'), s,
                         (sent \ bad) \cup (IF prompt THEN {Prompt} ELSE {}))
  BY <1>5
<1>10. run' \in Runs
  <2>1. Observable(run, subscribed') \in Runs
    BY <1>1, RunsType
  <2> QED BY <1>9, <2>1, RunsType
<1>11. failedSends' \subseteq Sends
  BY <1>1, <1>3, <1>9 DEF Sends
<1>12. timer' \in Timers
  BY <1>1, <1>5 DEF Timers
<1>13. handlers' \in [ErrorIds -> Handler]
  <2>1. [rec EXCEPT !.at = "reprompted"] \in Handler /\ AfterReinit(rec) \in Handler
    BY <1>2, HandlerType DEF Stages
  <2> QED BY <1>1, <1>6, <2>1
<1>14. /\ session' \in Sessions \cup {0} /\ subscribed' \subseteq Sessions
       /\ unsubscribeSession' \in Sessions \cup {0} /\ isReinitializing' \in BOOLEAN
  BY <1>1, <1>5, InstallType
<1>15. pendingPrompt' \in BOOLEAN
  BY <1>1, <1>6 DEF TypeOK
<1>16. TypeOK'
  BY <1>1, <1>3, <1>4, <1>6, <1>8, <1>10, <1>11, <1>12, <1>13, <1>14, <1>15
     DEF TypeOK, Runs, Timers, Sends
<1>17. NoLostPromise'
  BY <1>6, <1>8 DEF IInv, NoLostPromise
<1> QED BY <1>16, <1>17 DEF IInv

(* A reinitialization that fails rejects the whole queue. *)
LEMMA ReinitEndsStep ==
    ASSUME IInv, NEW h \in ErrorIds, ReinitFails(h) \/ ReinitPrompted(h)
    PROVE  IInv'
<1>1. handlers \in [ErrorIds -> Handler]
  BY DEF IInv, TypeOK
<1>2. AfterReinit(handlers[h]) \in Handler
  BY <1>1, HandlerType DEF Stages
<1>3. handlers' \in [ErrorIds -> Handler]
  BY <1>1, <1>2, HandlerConstants DEF ReinitFails, ReinitPrompted
<1>4. CASE RejectAll /\ deliverySendCount' = 0
  BY <1>3, <1>4, RejectAllStep
     DEF ReinitFails, ReinitPrompted, IInv, TypeOK, Statuses, Timers, promptVars, sendVars
<1>5. CASE UNCHANGED queueVars
  BY <1>3, <1>5
     DEF ReinitFails, ReinitPrompted, IInv, TypeOK, NoLostPromise, queueVars, promptVars, sendVars
<1> QED BY <1>4, <1>5 DEF ReinitFails, ReinitPrompted

(* A handler that resumes fails over, compacts, or rejects the whole queue. *)
LEMMA AwaitedStep ==
    ASSUME IInv, NEW h \in ErrorIds, Awaited(h)
    PROVE  IInv'
<1> DEFINE rec == handlers[h]
           compacting == [rec EXCEPT !.then = "compact", !.after = "failover"]
<1>1. handlers \in [ErrorIds -> Handler] /\ rec \in Handler
  BY DEF IInv, TypeOK
<1>2. compacting \in Handler
  BY <1>1, HandlerType DEF Stages
<1>3. CASE /\ UNCHANGED queueVars
           /\ StartReinit(h, rec) \/ StartReinit(h, compacting)
  <2>1. handlers' \in [ErrorIds -> Handler] /\ isReinitializing' \in BOOLEAN
    BY <1>1, <1>2, <1>3, StartReinitType
  <2> QED BY <1>3, <2>1
        DEF Awaited, IInv, TypeOK, NoLostPromise, queueVars, promptVars, sendVars
<1>4. CASE /\ RejectAll /\ handlers' = [handlers EXCEPT ![h] = Finished]
           /\ UNCHANGED <<deliverySendCount, isReinitializing>>
  BY <1>1, <1>4, HandlerConstants, RejectAllStep
     DEF Awaited, IInv, TypeOK, Statuses, Timers, promptVars, sendVars
<1> QED BY <1>3, <1>4 DEF Awaited

(* Compaction moves its handler on and leaves the queue alone. *)
LEMMA CompactEndsStep ==
    ASSUME IInv, NEW h \in ErrorIds, CompactEnds(h)
    PROVE  IInv'
<1> DEFINE rec == handlers[h]
<1>1. handlers \in [ErrorIds -> Handler] /\ rec \in Handler /\ isReinitializing \in BOOLEAN
  BY DEF IInv, TypeOK
<1>2. /\ [rec EXCEPT !.then = "replay"] \in Handler /\ [rec EXCEPT !.then = "done"] \in Handler
      /\ [rec EXCEPT !.at = "recovered"] \in Handler
      /\ [rec EXCEPT !.at = "await", !.then = "done"] \in Handler
  BY <1>1, HandlerType DEF Stages
<1>3. handlers' \in [ErrorIds -> Handler] /\ isReinitializing' \in BOOLEAN
  <2>1. CASE \/ StartReinit(h, [rec EXCEPT !.then = "replay"])
             \/ StartReinit(h, [rec EXCEPT !.then = "done"])
    BY <1>1, <1>2, <2>1, StartReinitType
  <2>2. CASE /\ \/ handlers' = [handlers EXCEPT ![h] = [rec EXCEPT !.at = "recovered"]]
                \/ handlers' = [handlers EXCEPT ![h] = [rec EXCEPT !.at = "await", !.then = "done"]]
             /\ UNCHANGED isReinitializing
    BY <1>1, <1>2, <2>2
  <2> QED BY <2>1, <2>2 DEF CompactEnds
<1>4. contextOverflowHandled' \in BOOLEAN
  BY DEF CompactEnds, IInv, TypeOK
<1> QED BY <1>3, <1>4
     DEF CompactEnds, IInv, TypeOK, NoLostPromise, queueVars, promptVars, sendVars

(* The replay after a context overflow keeps every entry queued. *)
LEMMA RecoveredStep ==
    ASSUME IInv, NEW h \in ErrorIds, Recovered(h)
    PROVE  IInv'
<1> DEFINE rec == handlers[h]
<1>1. /\ handlers \in [ErrorIds -> Handler] /\ rec \in Handler /\ run \in Runs /\ timer \in Timers
      /\ pendingDeliveries \in Seq(Deliveries) /\ deferred \subseteq Deliveries
      /\ failedSends \in SUBSET Sends /\ session \in Sessions \cup {0}
  BY DEF IInv, TypeOK, Runs, Timers, Sends
<1>2. CASE /\ pendingPrompt' = FALSE /\ handlers' = [handlers EXCEPT ![h] = Finished]
           /\ UNCHANGED <<status, isReinitializing>>
           /\ IF session # 0
              THEN ReplayOn(session, run, pendingDeliveries, 0, {}, failedSends)
              ELSE NoReplay(pendingDeliveries, 0, {}, failedSends) /\ UNCHANGED run
  <2>1. handlers' \in [ErrorIds -> Handler]
    BY <1>1, <1>2, HandlerConstants
  <2>2. /\ pendingDeliveries' = pendingDeliveries /\ deliverySendCount' \in Nat
        /\ deferred' \subseteq Deliveries /\ timer' \in Timers /\ failedSends' \subseteq Sends
        /\ run' \in Runs
    <3>1. CASE session # 0
      BY <1>1, <1>2, <3>1, ReplayType
    <3>2. CASE session = 0
      BY <1>1, <1>2, <3>2, NoReplayType
    <3> QED BY <3>1, <3>2
  <2> QED BY <1>2, <2>1, <2>2
        DEF Recovered, IInv, TypeOK, NoLostPromise, Runs, Timers, Sends
<1>3. CASE /\ StartReinit(h, [rec EXCEPT !.then = "done"])
           /\ UNCHANGED <<queueVars, pendingPrompt, failedSends, run>>
  <2>1. [rec EXCEPT !.then = "done"] \in Handler
    BY <1>1, HandlerType DEF Stages
  <2>2. handlers' \in [ErrorIds -> Handler] /\ isReinitializing' \in BOOLEAN
    BY <1>1, <1>3, <2>1, StartReinitType
  <2> QED BY <1>3, <2>2 DEF Recovered, IInv, TypeOK, NoLostPromise, queueVars
<1> QED BY <1>2, <1>3 DEF Recovered

-----------------------------------------------------------------------------
(* Resets and reclaims *)

(* A reset replays the queue on the new session or rejects all of it. *)
LEMMA ResetEndsStep ==
    ASSUME IInv, ResetSucceeds \/ ResetFails
    PROVE  IInv'
<1>1. CASE ResetSucceeds
  <2>1. /\ TypeOK /\ run \in Runs /\ timer \in Timers /\ pendingDeliveries \in Seq(Deliveries)
        /\ deferred \subseteq Deliveries /\ failedSends \in SUBSET Sends
        /\ deliverySendCount \in Nat
    BY DEF IInv, TypeOK, Runs, Timers, Sends
  <2>2. PICK s \in Sessions :
          /\ Install(s)
          /\ ReplayOn(s, Observable(run, subscribed'), pendingDeliveries, deliverySendCount,
                      {}, failedSends)
    BY <1>1 DEF ResetSucceeds
  <2>3. Observable(run, subscribed') \in Runs
    BY <2>1, RunsType
  <2>4. /\ pendingDeliveries' = pendingDeliveries /\ deliverySendCount' \in Nat
        /\ deferred' \subseteq Deliveries /\ timer' \in Timers /\ failedSends' \subseteq Sends
        /\ run' \in Runs
    BY <2>1, <2>2, <2>3, ReplayType
  <2>5. /\ session' \in Sessions \cup {0} /\ subscribed' \subseteq Sessions
        /\ unsubscribeSession' \in Sessions \cup {0} /\ isReinitializing' \in BOOLEAN
    BY <2>1, <2>2, InstallType
  <2>6. resetInits' \in Nat
    BY <1>1, <2>1 DEF ResetSucceeds, TypeOK
  <2> QED BY <1>1, <2>1, <2>4, <2>5, <2>6
        DEF ResetSucceeds, IInv, TypeOK, NoLostPromise, Runs, Timers, Sends, promptVars
<1>2. CASE ResetFails
  <2>1. resetInits' \in Nat
    BY <1>2 DEF ResetFails, IInv, TypeOK
  <2> QED BY <1>2, <2>1, RejectAllStep
        DEF ResetFails, IInv, TypeOK, Statuses, Timers, promptVars, sendVars
<1> QED BY <1>1, <1>2

(* A reclaim replaces the session and leaves the queue alone. *)
LEMMA ReclaimStep ==
    ASSUME IInv, Reclaim
    PROVE  IInv'
<1>1. TypeOK /\ run \in Runs /\ ResetSession(run)
  BY DEF IInv, TypeOK, Runs, Reclaim
<1> QED BY <1>1, ResetSessionType
     DEF Reclaim, IInv, TypeOK, NoLostPromise, Runs, queueVars, promptVars, sendVars

-----------------------------------------------------------------------------
(* One step of any kind keeps the invariant. *)
LEMMA NextIInv == IInv /\ [Next]_vars => IInv'
<1> SUFFICES ASSUME IInv, [Next]_vars PROVE IInv'
  OBVIOUS
<1>1. CASE UNCHANGED vars
  BY <1>1 DEF IInv, TypeOK, NoLostPromise, vars, queueVars, sessionVars, promptVars, sendVars
<1>2. ASSUME NEW d \in Deliveries,
             DeliverRejected(d) \/ DeliverMessage(d) \/ DeferTimeout(d) \/ DispatchTimeout(d)
      PROVE  IInv'
  BY <1>2, DeliverRejectedStep, DeliverMessageStep, DeferTimeoutStep, DispatchTimeoutStep
<1>3. ASSUME \/ \E r \in reloading : ReloadEnds(r)
             \/ \E f \in failedSends : SendFails(f)
             \/ UserPrompt \/ PromptReloadEnds \/ Abort
      PROVE  IInv'
  BY <1>3, ReloadEndsStep, SendFailsStep, PromptStep, AbortStep
<1>4. ASSUME NEW s \in Sessions,
             \/ TurnStarts(s) \/ ModelOutput(s) \/ RunEndsUnseen(s)
             \/ \E errored \in BOOLEAN : RunEnds(s, errored)
             \/ \E h \in ErrorIds, decision \in Decisions, wireSize \in BOOLEAN :
                  RunFails(s, h, decision, wireSize)
      PROVE  IInv'
  BY <1>4, TurnStep, RunEndsUnseenStep, RunEndsStep, RunFailsStep
<1>5. ASSUME NEW h \in ErrorIds, ErrorStep(h) PROVE IInv'
  BY <1>5, RetryStep, AwaitedStep, FreshEndsStep, ReinitSucceedsStep, ReinitEndsStep,
     CompactEndsStep, RecoveredStep DEF ErrorStep
<1>6. ASSUME ResetSucceeds \/ ResetFails \/ Reclaim PROVE IInv'
  BY <1>6, ResetEndsStep, ReclaimStep
<1> QED BY <1>1, <1>2, <1>3, <1>4, <1>5, <1>6 DEF Next

(* The invariant holds throughout. *)
THEOREM Invariance == Spec => []IInv
<1> QED BY InitIInv, NextIInv, PTL DEF Spec

(* AgentHost's state is well typed: in particular deliverySendCount never becomes
   negative, whatever the order of failed sends, timeouts, aborts and run ends.    *)
THEOREM TypeCorrect == Spec => []TypeOK
<1>1. IInv => TypeOK
  BY DEF IInv
<1> QED BY <1>1, Invariance, PTL

(* deliverMessage never drops a promise: as long as a delivery is not answered, its
   entry, with the resolve and reject of the promise, stays in pendingDeliveries.  *)
THEOREM NoPromiseLost == Spec => []NoLostPromise
<1>1. IInv => NoLostPromise
  BY DEF IInv
<1> QED BY <1>1, Invariance, PTL

-----------------------------------------------------------------------------
(* Watchdogs *)

(* The defer timer of a deferred entry is armed, and the dispatch timer of every other
   for the current session: a stronger form of Watched, without its exception.        *)
Guarded == \A d \in Deliveries : status[d] = "pending" =>
              IF d \in deferred THEN timer[d] = DeferTimer ELSE timer[d] = session

\* A step that leaves nobody of `out` unanswered, and asks for nothing new.
Answers(out) == \A d \in Deliveries : status'[d] = "pending" => status[d] = "pending" /\ d \notin out

AllDeferred == \A d \in Deliveries : status[d] = "pending" => d \in deferred

(* A reset is no danger to watchdogs for the old session: an entry that is not deferred
   is in flight, and so answered by the run that ends; and there is none behind a reset. *)
ResetsSafe ==
    /\ ResetRole => ErrorIds = {}
    /\ ResetRole => \A d \in Deliveries : status[d] = "pending" /\ d \notin deferred => d \in InFlight
    /\ resetInits > 0 => AllDeferred

\* Entries that a queue, a flag or the snapshot of an error handler knows of.
Known == deferred \cup Elements(pendingDeliveries)
            \cup UNION {Elements(handlers[h].snapshot) : h \in ErrorIds}

\* They have all been delivered.
KnownDelivered == \A d \in Known : status[d] # "new"

(* Timers are no session's number. *)
LEMMA TimersApart == NoTimer \notin Sessions /\ DeferTimer \notin Sessions \cup {0}
BY ConstantsAssumption DEF NoTimer, DeferTimer

(* A replay arms the watchdogs of what it dispatches. *)
LEMMA ReplayGuards ==
    ASSUME Guarded, NEW s, NEW r, NEW q, NEW count, NEW out, NEW fails,
           ReplayOn(s, r, q, count, out, fails), Answers(out), session' = s,
           session = s \/ AllDeferred
    PROVE  Guarded'
<1> DEFINE sent == {q[i] : i \in Dispatched(q, count)}
<1>1. /\ deferred' = deferred \ sent
      /\ timer' = [d \in Deliveries |-> IF d \in sent THEN s ELSE IF d \in out THEN NoTimer ELSE timer[d]]
  BY DEF ReplayOn
<1> HIDE DEF sent
<1> SUFFICES ASSUME NEW d \in Deliveries, status'[d] = "pending"
             PROVE  IF d \in deferred' THEN timer'[d] = DeferTimer ELSE timer'[d] = session'
  BY DEF Guarded
<1>2. status[d] = "pending" /\ d \notin out
  BY DEF Answers
<1>3. CASE d \in sent
  BY <1>1, <1>3
<1>4. CASE d \notin sent
  BY <1>1, <1>2, <1>4 DEF Guarded, AllDeferred
<1> QED BY <1>3, <1>4

(* Without one, the watchdogs of what is still queued stay as they are. *)
LEMMA NoReplayGuards ==
    ASSUME Guarded, NEW q, NEW count, NEW out, NEW fails,
           NoReplay(q, count, out, fails), Answers(out),
           session' = session \/ \A d \in Deliveries : status'[d] = "pending" => d \in deferred
    PROVE  Guarded'
BY DEF Guarded, NoReplay, Disarm, Answers

(* When everybody is answered nothing needs a watchdog. *)
LEMMA AllAnsweredGuards ==
    ASSUME IInv, RejectAll
    PROVE  Guarded'
<1>1. status \in [Deliveries -> Statuses]
  BY DEF IInv, TypeOK, Statuses
<1>2. \A d \in Deliveries : status'[d] # "pending"
  BY <1>1, SettleType DEF RejectAll, IInv, NoLostPromise
<1> QED BY <1>2 DEF Guarded

(* A step that does not touch the queue. *)
LEMMA QueueLeftGuards ==
    ASSUME Guarded, UNCHANGED <<status, deferred, timer>>, session' = session \/ AllDeferred
    PROVE  Guarded'
BY DEF Guarded, AllDeferred

(* Settling a set answers it. *)
LEMMA SettleAnswers ==
    ASSUME IInv, NEW S, NEW outcome \in {"resolved", "rejected"}, status' = Settle(S, outcome)
    PROVE  Answers(S)
<1>1. status \in [Deliveries -> Statuses]
  BY DEF IInv, TypeOK, Statuses
<1> QED BY <1>1, SettleType DEF Answers

(* A delivery is accepted with a watchdog, or refused. *)
LEMMA DeliverGuards ==
    ASSUME IInv, KnownDelivered, Guarded, NEW d \in Deliveries, DeliverRejected(d) \/ DeliverMessage(d)
    PROVE  Guarded'
<1>1. /\ status \in [Deliveries -> Statuses] /\ timer \in Timers /\ deferred \subseteq Deliveries
      /\ \A e \in Deliveries \ {d} : status'[e] = status[e]
      /\ session' = session
  BY DEF IInv, TypeOK, Statuses, Timers, DeliverRejected, DeliverMessage, sessionVars
<1>2. CASE DeliverRejected(d)
  BY <1>1, <1>2 DEF Guarded, DeliverRejected
<1>3. CASE DeliverMessage(d)
  <2>1. CASE Gated(d)
    BY <1>1, <1>3, <2>1 DEF Guarded, DeliverMessage, Arm
  <2>2. CASE ~Gated(d)
    <3>1. deferred' = deferred /\ timer' = Arm({d}, session) /\ d \notin deferred
      BY <1>3, <2>2 DEF DeliverMessage, KnownDelivered, Known
    <3> QED BY <1>1, <3>1 DEF Guarded, Arm
  <2> QED BY <2>1, <2>2
<1> QED BY <1>2, <1>3

(* A send fails: the catch rejects the entry, and what it releases gets watchdogs. *)
LEMMA SendGuards ==
    ASSUME IInv, Guarded,
           (\E r \in reloading : ReloadEnds(r)) \/ (\E f \in failedSends : SendFails(f))
    PROVE  Guarded'
<1>1. session' = session
  BY DEF ReloadEnds, SendFails, sessionVars
<1>2. CASE UNCHANGED queueVars
  BY <1>1, <1>2, QueueLeftGuards DEF queueVars
<1>3. ASSUME NEW d, NEW out, NEW release, NEW fails, SendCatch(d, session, out, release, fails)
      PROVE  Guarded'
  <2>1. Answers(out)
    BY <1>3, SettleAnswers DEF SendCatch
  <2>2. \E q, c : ReplayOn(session, run, q, c, out, fails) \/ NoReplay(q, c, out, fails)
    BY <1>3 DEF SendCatch
  <2> QED BY <1>1, <2>1, <2>2, ReplayGuards, NoReplayGuards
<1>4. ASSUME NEW d, NEW s, NEW out, NEW release, NEW fails, SendCatch(d, s, out, release, fails)
      PROVE  Guarded'
  <2>1. CASE s = session
    BY <1>3, <1>4, <2>1
  <2>2. CASE s # session
    BY <1>2, <1>4, <2>2 DEF SendCatch
  <2> QED BY <2>1, <2>2
<1> QED BY <1>2, <1>4 DEF ReloadEnds, SendFails

(* A watchdog fires: for an entry it still guards, or for one that is gone. *)
LEMMA TimeoutGuards ==
    ASSUME IInv, Guarded, NEW d \in Deliveries, DeferTimeout(d) \/ DispatchTimeout(d)
    PROVE  Guarded'
<1>1. /\ status \in [Deliveries -> Statuses] /\ timer \in Timers /\ session' = session
      /\ session \in Sessions \cup {0}
      /\ status[d] = "pending" => d \in Elements(pendingDeliveries)
  BY DEF IInv, TypeOK, NoLostPromise, Statuses, Timers, sessionVars, DeferTimeout, DispatchTimeout
<1>2. CASE DeferTimeout(d)
  <2>1. deferred' = deferred /\ timer' = Disarm({d}) /\ timer[d] = DeferTimer
    BY <1>2 DEF DeferTimeout
  <2>2. status'[d] # "pending" /\ \A e \in Deliveries \ {d} : status'[e] = status[e]
    <3>1. CASE d \in Elements(pendingDeliveries) /\ d \in deferred
      BY <1>1, <1>2, <3>1 DEF DeferTimeout, Settle
    <3>2. CASE ~(d \in Elements(pendingDeliveries) /\ d \in deferred)
      <4>1. status' = status
        BY <1>2, <3>2 DEF DeferTimeout
      <4>2. status[d] = "pending" => d \in deferred
        BY <1>1, <2>1, TimersApart DEF Guarded
      <4> QED BY <1>1, <3>2, <4>1, <4>2
    <3> QED BY <3>1, <3>2
  <2> QED BY <2>1, <2>2, <1>1 DEF Guarded, Disarm
<1>3. CASE DispatchTimeout(d)
  <2>1. CASE timer[d] = session /\ d \in Elements(pendingDeliveries)
    <3>1. Answers({d})
      BY <1>3, <2>1, SettleAnswers DEF DispatchTimeout
    <3>2. \E q, c : ReplayOn(session, run, q, c, {d}, failedSends) \/ NoReplay(q, c, {d}, failedSends)
      BY <1>3, <2>1 DEF DispatchTimeout
    <3> QED BY <1>1, <3>1, <3>2, ReplayGuards, NoReplayGuards
  <2>2. CASE ~(timer[d] = session /\ d \in Elements(pendingDeliveries))
    <3>1. UNCHANGED <<status, deferred>> /\ timer' = Disarm({d}) /\ timer[d] \in Sessions
      BY <1>3, <2>2 DEF DispatchTimeout
    <3>2. status[d] # "pending"
      BY <1>1, <2>2, <3>1, TimersApart DEF Guarded
    <3> QED BY <1>1, <3>1, <3>2 DEF Guarded, Disarm
  <2> QED BY <2>1, <2>2
<1> QED BY <1>2, <1>3

(* A run ends, well or with an error. *)
LEMMA RunEndsGuards ==
    ASSUME IInv, Guarded, ResetsSafe, NEW s,
           \/ \E errored \in BOOLEAN : RunEnds(s, errored)
           \/ \E h \in ErrorIds : \E decision, wireSize : RunFails(s, h, decision, wireSize)
    PROVE  Guarded'
<1>1. ASSUME NEW errored, RunEnds(s, errored)
      PROVE  Guarded'
  <2> DEFINE rest == SubSeq(pendingDeliveries,
                            Smaller(deliverySendCount, Len(pendingDeliveries)) + 1,
                            Len(pendingDeliveries))
             ended == [run EXCEPT ![s] = NoRun]
  <2>1. Answers(InFlight)
    BY <1>1, SettleAnswers DEF RunEnds
  <2> HIDE DEF rest, ended
  <2>2. CASE ResetRole /\ InFlight \cap Scheduled # {}
    <3>1. NoReplay(rest, 0, InFlight, failedSends)
      BY <1>1, <2>2 DEF RunEnds, rest
    <3>2. \A d \in Deliveries : status'[d] = "pending" => d \in deferred
      BY <2>1, <2>2 DEF Answers, ResetsSafe
    <3> QED BY <2>1, <3>1, <3>2, NoReplayGuards
  <2>3. CASE ~(ResetRole /\ InFlight \cap Scheduled # {})
    <3>1. /\ session' = session
          /\ \/ ReplayOn(session, ended, rest, 0, InFlight, failedSends)
             \/ NoReplay(rest, 0, InFlight, failedSends)
      BY <1>1, <2>3 DEF RunEnds, rest, ended, sessionVars
    <3> QED BY <2>1, <3>1, ReplayGuards, NoReplayGuards
  <2> QED BY <2>2, <2>3
<1>2. ASSUME NEW h \in ErrorIds, NEW decision, NEW wireSize, RunFails(s, h, decision, wireSize)
      PROVE  Guarded'
  <2>1. session' = session
    BY <1>2 DEF RunFails, ResetsSafe
  <2> QED BY <1>2, <2>1, AllAnsweredGuards, QueueLeftGuards DEF RunFails
<1> QED BY <1>1, <1>2

(* A retry resends its snapshot under new watchdogs. *)
LEMMA ResendGuards ==
    ASSUME Guarded, NEW h, Resend(h), session' = session
    PROVE  Guarded'
<1>1. CASE session = 0
  BY <1>1, QueueLeftGuards DEF Resend
<1>2. CASE session # 0
  <2> DEFINE all  == Elements(handlers[h].snapshot)
             sent == all \ deferred
  <2>1. /\ UNCHANGED <<status, deferred>>
        /\ timer' = [d \in Deliveries |-> IF d \in sent THEN session
                                          ELSE IF d \in all THEN DeferTimer ELSE timer[d]]
    BY <1>2 DEF Resend
  <2>2. \A d : d \in sent <=> d \in all /\ d \notin deferred
    OBVIOUS
  <2> HIDE DEF all, sent
  <2> QED BY <2>1, <2>2 DEF Guarded
<1> QED BY <1>1, <1>2

(* A failover that succeeds resends or defers everything. *)
LEMMA ReinitGuards ==
    ASSUME IInv, Guarded, NEW h, ReinitSucceeds(h)
    PROVE  Guarded'
<1> DEFINE rec    == handlers[h]
           snap   == IF rec.then = "done" THEN rec.snapshot ELSE <<>>
           held   == HeldBack(snap)
           all    == Elements(snap) \cup Elements(pendingDeliveries)
           sent   == all \ held
<1>1. PICK s \in Sessions :
        /\ session' = s
        /\ deferred' = (deferred \ sent) \cup held
        /\ timer' = [d \in Deliveries |-> IF d \in sent THEN s
                                          ELSE IF d \in held THEN DeferTimer
                                          ELSE timer[d]]
  BY DEF ReinitSucceeds, Install
<1>2. status' = status
  BY DEF ReinitSucceeds
<1>3. \A d \in Deliveries : status[d] = "pending" => d \in all
  BY DEF IInv, NoLostPromise
<1>4. \A d \in all : d \in sent <=> d \notin held
  OBVIOUS
<1> HIDE DEF all, sent, held
<1> SUFFICES ASSUME NEW d \in Deliveries, status[d] = "pending"
             PROVE  IF d \in deferred' THEN timer'[d] = DeferTimer ELSE timer'[d] = session'
  BY <1>2 DEF Guarded
<1>5. CASE d \in held
  BY <1>1, <1>3, <1>4, <1>5
<1>6. CASE d \notin held
  BY <1>1, <1>3, <1>4, <1>6
<1> QED BY <1>5, <1>6

(* Whatever the error handler does. *)
LEMMA ErrorGuards ==
    ASSUME IInv, Guarded, NEW h, ErrorStep(h)
    PROVE  Guarded'
<1>1. CASE RetryWakes(h) \/ RetryPrompted(h)
  <2>1. session' = session
    BY <1>1 DEF RetryWakes, RetryPrompted, sessionVars
  <2>2. Resend(h) \/ UNCHANGED queueVars
    BY <1>1 DEF RetryWakes, RetryPrompted
  <2> QED BY <2>1, <2>2, ResendGuards, QueueLeftGuards DEF queueVars
<1>2. CASE ReinitSucceeds(h)
  BY <1>2, ReinitGuards
<1>3. CASE Awaited(h) \/ FreshEnds(h) \/ ReinitFails(h) \/ ReinitPrompted(h) \/ CompactEnds(h)
  <2>1. session' = session /\ (RejectAll \/ UNCHANGED queueVars)
    BY <1>3 DEF Awaited, FreshEnds, ReinitFails, ReinitPrompted, CompactEnds
  <2> QED BY <2>1, AllAnsweredGuards, QueueLeftGuards DEF queueVars
<1>4. CASE Recovered(h)
  <2>1. session' = session
    BY <1>4 DEF Recovered
  <2>2. CASE UNCHANGED queueVars
    BY <2>1, <2>2, QueueLeftGuards DEF queueVars
  <2>3. CASE /\ UNCHANGED status
             /\ \/ ReplayOn(session, run, pendingDeliveries, 0, {}, failedSends)
                \/ NoReplay(pendingDeliveries, 0, {}, failedSends)
    <3>1. Answers({})
      BY <2>3 DEF Answers
    <3> QED BY <2>1, <2>3, <3>1, ReplayGuards, NoReplayGuards
  <2> QED BY <1>4, <2>2, <2>3 DEF Recovered
<1> QED BY <1>1, <1>2, <1>3, <1>4 DEF ErrorStep

(* A reset finds nothing in flight, and its end dispatches or rejects what queued up. *)
LEMMA ResetGuards ==
    ASSUME IInv, Guarded, ResetsSafe, ResetSucceeds \/ ResetFails \/ Reclaim
    PROVE  Guarded'
<1>1. CASE ResetSucceeds
  <2>1. AllDeferred /\ Answers({})
    BY <1>1 DEF ResetSucceeds, ResetsSafe, Answers
  <2>2. \E s, r : session' = s /\ ReplayOn(s, r, pendingDeliveries, deliverySendCount, {}, failedSends)
    BY <1>1 DEF ResetSucceeds, Install
  <2> QED BY <2>1, <2>2, ReplayGuards
<1>2. CASE ResetFails
  BY <1>2, AllAnsweredGuards DEF ResetFails
<1>3. CASE Reclaim
  <2>1. deliverySendCount = 0 /\ ResetRole /\ UNCHANGED queueVars
    BY <1>3 DEF Reclaim
  <2>2. Len(pendingDeliveries) \in Nat
    BY DEF IInv, TypeOK
  <2>3. InFlight = {}
    <3>1. Smaller(deliverySendCount, Len(pendingDeliveries)) = 0
      BY <2>1, <2>2 DEF Smaller
    <3> QED BY <3>1 DEF InFlight
  <2>4. AllDeferred
    BY <2>1, <2>3 DEF ResetsSafe, AllDeferred
  <2> QED BY <2>1, <2>4, QueueLeftGuards DEF queueVars
<1> QED BY <1>1, <1>2, <1>3

(* Every step keeps the watchdogs. *)
LEMMA NextGuards ==
    ASSUME IInv, KnownDelivered, Guarded, ResetsSafe, [Next]_vars
    PROVE  Guarded'
<1>1. CASE \E d \in Deliveries : DeliverRejected(d) \/ DeliverMessage(d) \/ DeferTimeout(d) \/ DispatchTimeout(d)
  BY <1>1, DeliverGuards, TimeoutGuards
<1>2. CASE (\E r \in reloading : ReloadEnds(r)) \/ (\E f \in failedSends : SendFails(f))
  BY <1>2, SendGuards
<1>3. CASE UserPrompt \/ PromptReloadEnds \/ (\E s \in Sessions : TurnStarts(s) \/ ModelOutput(s) \/ RunEndsUnseen(s))
              \/ UNCHANGED vars
  <2>1. UNCHANGED queueVars /\ session' = session
    BY <1>3 DEF UserPrompt, PromptReloadEnds, TurnStarts, ModelOutput, RunEndsUnseen, vars, sessionVars
  <2> QED BY <2>1, QueueLeftGuards DEF queueVars
<1>4. CASE Abort
  BY <1>4, AllAnsweredGuards DEF Abort
<1>5. CASE \E s \in Sessions :
              \/ \E errored \in BOOLEAN : RunEnds(s, errored)
              \/ \E h \in ErrorIds, decision \in Decisions, wireSize \in BOOLEAN :
                    RunFails(s, h, decision, wireSize)
  BY <1>5, RunEndsGuards
<1>6. CASE \E h \in ErrorIds : ErrorStep(h)
  BY <1>6, ErrorGuards
<1>7. CASE ResetSucceeds \/ ResetFails \/ Reclaim
  BY <1>7, ResetGuards
<1> QED BY <1>1, <1>2, <1>3, <1>4, <1>5, <1>6, <1>7 DEF Next

(* Entries that are known have been delivered. *)

\* A delivery is delivered once and for all.
StatusForward == \A d \in Deliveries : status[d] # "new" => status'[d] # "new"

(* They are deliveries. *)
LEMMA KnownTyped == ASSUME IInv PROVE Known \subseteq Deliveries
<1>1. \A h \in ErrorIds : handlers[h].snapshot \in Seq(Deliveries)
  BY DEF IInv, TypeOK, Handler
<1>2. \A q \in Seq(Deliveries) : Elements(q) \subseteq Deliveries
  BY ElementsFinite
<1> QED BY <1>1, <1>2 DEF Known, IInv, TypeOK

(* What is known afterwards was known before, or is delivered by the step. *)
LEMMA KnownKept ==
    ASSUME IInv, KnownDelivered, StatusForward, NEW X \in SUBSET Deliveries,
           \A d \in X : status'[d] # "new",
           deferred' \subseteq Known \cup X, Elements(pendingDeliveries)' \subseteq Known \cup X,
           \A h \in ErrorIds : Elements(handlers'[h].snapshot) \subseteq Known
    PROVE  KnownDelivered'
<1>1. Known' \subseteq Known \cup X
  BY DEF Known
<1> QED BY <1>1, KnownTyped DEF KnownDelivered, StatusForward

(* Snapshots are of the queue, or are kept, or are dropped. *)
LEMMA HandlerMoves ==
    ASSUME IInv, NEW h \in ErrorIds, NEW r, handlers' = [handlers EXCEPT ![h] = r],
           r.snapshot \in {handlers[h].snapshot, <<>>, pendingDeliveries}
    PROVE  \A k \in ErrorIds : Elements(handlers'[k].snapshot) \subseteq Known
<1>1. Elements(<<>>) = {}
  BY DEF Elements
<1>2. \A k \in ErrorIds : k # h => handlers'[k] = handlers[k]
  BY DEF IInv, TypeOK
<1>3. handlers'[h] = r
  BY DEF IInv, TypeOK
<1> QED BY <1>1, <1>2, <1>3 DEF Known

(* A handler that is done with its reinitialization keeps its snapshot or drops it. *)
LEMMA AfterSnapshot ==
    ASSUME NEW rec \in Handler
    PROVE  AfterReinit(rec).snapshot \in {rec.snapshot, <<>>}
BY DEF Handler, AfterReinit, Finished, Idle

(* So does one that starts it, or skips it. *)
LEMMA StartSnapshots ==
    ASSUME IInv, NEW h \in ErrorIds, NEW rec \in Handler, rec.snapshot = handlers[h].snapshot,
           StartReinit(h, rec)
    PROVE  \A k \in ErrorIds : Elements(handlers'[k].snapshot) \subseteq Known
<1> DEFINE r == IF isReinitializing THEN AfterReinit(rec) ELSE [rec EXCEPT !.at = "fresh"]
<1>1. handlers' = [handlers EXCEPT ![h] = r]
  BY DEF StartReinit
<1>2. r.snapshot \in {rec.snapshot, <<>>}
  BY AfterSnapshot DEF Handler
<1> HIDE DEF r
<1> QED BY <1>1, <1>2, HandlerMoves

(* Nobody settles a delivery that is not delivered yet. *)
LEMMA SettleForward ==
    ASSUME IInv, NEW S, NEW outcome \in {"resolved", "rejected"}, status' = Settle(S, outcome)
    PROVE  StatusForward
BY DEF StatusForward, Settle

(* A step of the queue that adds nothing to it. *)
LEMMA QueueKnown ==
    ASSUME IInv, KnownDelivered, StatusForward, deferred' \subseteq deferred,
           Elements(pendingDeliveries)' \subseteq Elements(pendingDeliveries),
           \A h \in ErrorIds : Elements(handlers'[h].snapshot) \subseteq Known
    PROVE  KnownDelivered'
<1>1. deferred' \subseteq Known \cup {} /\ Elements(pendingDeliveries)' \subseteq Known \cup {}
  BY DEF Known
<1>2. {} \in SUBSET Deliveries /\ \A d \in {} : status'[d] # "new"
  OBVIOUS
<1> QED BY <1>1, <1>2, KnownKept

(* A step that touches no handler. *)
LEMMA SnapshotsKnown == \A h \in ErrorIds : Elements(handlers[h].snapshot) \subseteq Known
BY DEF Known

(* Without adds nothing. *)
LEMMA WithoutFewer ==
    ASSUME NEW q \in Seq(Deliveries), NEW d \in Deliveries
    PROVE  Elements(Without(q, d)) \subseteq Elements(q)
<1>1. CASE d \in Elements(q)
  <2> DEFINE p == Position(q, d)
             a == SubSeq(q, 1, p - 1)
             b == SubSeq(q, p + 1, Len(q))
  <2>1. p \in 1..Len(q) /\ Len(q) \in Nat
    BY <1>1, PositionInDomain
  <2> HIDE DEF p
  <2>2. /\ a \in Seq(Deliveries) /\ Len(a) = p - 1 /\ \A i \in 1..Len(a) : a[i] = q[i] /\ i \in 1..Len(q)
        /\ b \in Seq(Deliveries) /\ Len(b) = Len(q) - p
        /\ \A i \in 1..Len(b) : b[i] = q[p + i] /\ p + i \in 1..Len(q)
    BY <2>1
  <2>3. Without(q, d) = a \o b
    BY <1>1 DEF Without, p
  <2> HIDE DEF a, b
  <2>4. Len(a) \in Nat /\ Len(b) \in Nat
    BY <2>2
  <2>6. DOMAIN (a \o b) = 1..(Len(a) + Len(b))
    <3>1. a \in Seq(Deliveries) /\ b \in Seq(Deliveries)
      BY <2>2
    <3>2. a \o b \in Seq(Deliveries) /\ Len(a \o b) = Len(a) + Len(b)
      BY <3>1
    <3> QED BY <3>2
  <2>5. ASSUME NEW i \in DOMAIN (a \o b) PROVE (a \o b)[i] \in Elements(q)
    <3>1. CASE i \in 1..Len(a)
      <4>1. (a \o b)[i] = a[i]
        BY <2>2, <3>1
      <4> QED BY <2>1, <2>2, <3>1, <4>1 DEF Elements
    <3>2. CASE i \notin 1..Len(a)
      <4>1. i - Len(a) \in 1..Len(b) /\ i \in 1..(Len(a) + Len(b)) /\ i > Len(a)
        BY <2>4, <2>6, <3>2
      <4>2. (a \o b)[i] = b[i - Len(a)]
        BY <2>2, <4>1
      <4>3. b[i - Len(a)] = q[p + (i - Len(a))] /\ p + (i - Len(a)) \in 1..Len(q)
        BY <2>2, <4>1
      <4> QED BY <2>1, <4>2, <4>3 DEF Elements
    <3> QED BY <3>1, <3>2
  <2> QED BY <2>3, <2>5 DEF Elements
<1>2. CASE d \notin Elements(q)
  BY <1>2 DEF Without
<1> QED BY <1>1, <1>2

(* A catch, a timeout and the end of a run take entries out of the queue. *)
LEMMA DropsKnown ==
    ASSUME IInv, KnownDelivered,
           \/ \E r \in reloading : ReloadEnds(r)
           \/ \E f \in failedSends : SendFails(f)
           \/ \E d \in Deliveries : DeferTimeout(d) \/ DispatchTimeout(d)
           \/ Abort
           \/ \E s \in Sessions : \E errored \in BOOLEAN : RunEnds(s, errored)
    PROVE  KnownDelivered'
<1>1. pendingDeliveries \in Seq(Deliveries) /\ deliverySendCount \in Nat
      /\ status \in [Deliveries -> Statuses]
  BY DEF IInv, TypeOK, Statuses
<1>2. handlers' = handlers
  BY DEF ReloadEnds, SendFails, DeferTimeout, DispatchTimeout, Abort, RunEnds
<1>3. \A d \in Deliveries : Elements(Without(pendingDeliveries, d)) \subseteq Elements(pendingDeliveries)
  BY <1>1, WithoutFewer
<1>4. ASSUME NEW d \in Deliveries, NEW s, NEW out, NEW release, NEW fails, SendCatch(d, s, out, release, fails)
      PROVE  StatusForward /\ deferred' \subseteq deferred
             /\ Elements(pendingDeliveries)' \subseteq Elements(pendingDeliveries)
  <2>1. StatusForward
    BY <1>4, SettleForward DEF SendCatch, queueVars, StatusForward
  <2>2. /\ deferred' \subseteq deferred
        /\ pendingDeliveries' \in {pendingDeliveries, Without(pendingDeliveries, d)}
    BY <1>4 DEF SendCatch, queueVars, ReplayOn, NoReplay
  <2> QED BY <1>3, <2>1, <2>2
<1>5. CASE (\E r \in reloading : ReloadEnds(r)) \/ (\E f \in failedSends : SendFails(f))
  <2>1. (\A r \in reloading : r.d \in Deliveries) /\ (\A f \in failedSends : f.d \in Deliveries)
    BY DEF IInv, TypeOK
  <2>2. StatusForward /\ deferred' \subseteq deferred
        /\ Elements(pendingDeliveries)' \subseteq Elements(pendingDeliveries)
    <3>1. CASE UNCHANGED queueVars
      BY <3>1 DEF queueVars, StatusForward
    <3> QED BY <1>4, <1>5, <2>1, <3>1 DEF ReloadEnds, SendFails
  <2> QED BY <1>2, <2>2, QueueKnown, SnapshotsKnown
<1>6. CASE \E d \in Deliveries : DeferTimeout(d) \/ DispatchTimeout(d)
  <2> PICK d \in Deliveries : DeferTimeout(d) \/ DispatchTimeout(d)
    BY <1>6
  <2>1. StatusForward
    <3>1. status' \in {status, Settle({d}, "rejected")}
      BY DEF DeferTimeout, DispatchTimeout
    <3> QED BY <3>1, SettleForward DEF StatusForward
  <2>2. /\ deferred' \subseteq deferred
        /\ pendingDeliveries' \in {pendingDeliveries, Without(pendingDeliveries, d)}
    BY DEF DeferTimeout, DispatchTimeout, ReplayOn, NoReplay
  <2>3. Elements(pendingDeliveries)' \subseteq Elements(pendingDeliveries)
    BY <1>3, <2>2
  <2> QED BY <1>2, <2>1, <2>2, <2>3, QueueKnown, SnapshotsKnown
<1>7. CASE Abort
  <2>1. StatusForward /\ deferred' = deferred /\ pendingDeliveries' = <<>>
    BY <1>7, SettleForward DEF Abort, RejectAll
  <2>2. Elements(pendingDeliveries)' = {}
    BY <2>1 DEF Elements
  <2> QED BY <1>2, <2>1, <2>2, QueueKnown, SnapshotsKnown
<1>8. ASSUME NEW s \in Sessions, NEW errored \in BOOLEAN, RunEnds(s, errored)
      PROVE  KnownDelivered'
  <2> DEFINE k == Smaller(deliverySendCount, Len(pendingDeliveries))
             rest == SubSeq(pendingDeliveries, k + 1, Len(pendingDeliveries))
  <2>1. StatusForward
    BY <1>8, SettleForward DEF RunEnds
  <2>2. deferred' \subseteq deferred /\ pendingDeliveries' = rest
    BY <1>8 DEF RunEnds, ReplayOn, NoReplay
  <2>3. Elements(rest) \subseteq Elements(pendingDeliveries)
    <3>1. k \in Nat /\ Len(pendingDeliveries) \in Nat
      BY <1>1 DEF Smaller
    <3>2. \A i \in DOMAIN rest : rest[i] = pendingDeliveries[k + i] /\ k + i \in DOMAIN pendingDeliveries
      <4> HIDE DEF k
      <4> QED BY <1>1, <3>1
    <3> HIDE DEF rest
    <3> QED BY <3>2 DEF Elements
  <2>4. Elements(pendingDeliveries)' \subseteq Elements(pendingDeliveries)
    BY <2>2, <2>3
  <2> QED BY <1>2, <2>1, <2>2, <2>4, QueueKnown, SnapshotsKnown
<1> QED BY <1>5, <1>6, <1>7, <1>8

(* A delivery enters the queue as it is delivered. *)
LEMMA DeliverKnown ==
    ASSUME IInv, KnownDelivered, NEW d \in Deliveries, DeliverRejected(d) \/ DeliverMessage(d)
    PROVE  KnownDelivered'
<1>1. StatusForward /\ status'[d] # "new" /\ handlers' = handlers
  BY DEF IInv, TypeOK, StatusForward, DeliverRejected, DeliverMessage
<1>2. deferred' \subseteq Known \cup {d}
  BY DEF DeliverRejected, DeliverMessage, Known
<1>3. Elements(pendingDeliveries)' \subseteq Known \cup {d}
  <2>1. CASE pendingDeliveries' = pendingDeliveries
    BY <2>1 DEF Known
  <2>2. CASE pendingDeliveries' = Append(pendingDeliveries, d)
    <3>1. pendingDeliveries \in Seq(Deliveries)
      BY DEF IInv, TypeOK
    <3>2. Elements(Append(pendingDeliveries, d)) \subseteq Elements(pendingDeliveries) \cup {d}
      BY <3>1 DEF Elements
    <3> QED BY <2>2, <3>2 DEF Known
  <2> QED BY <2>1, <2>2 DEF DeliverRejected, DeliverMessage
<1>4. \A h \in ErrorIds : Elements(handlers'[h].snapshot) \subseteq Known
  BY <1>1, SnapshotsKnown
<1>5. {d} \in SUBSET Deliveries /\ \A e \in {d} : status'[e] # "new"
  BY <1>1
<1> QED BY <1>1, <1>2, <1>3, <1>4, <1>5, KnownKept

(* An entry of a concatenation comes from one of its parts. *)
LEMMA ConcatParts ==
    ASSUME NEW a \in Seq(Deliveries), NEW b \in Seq(Deliveries), NEW e \in Elements(a \o b)
    PROVE  e \in Elements(a) \/ \E i \in 1..Len(b) : e = b[i]
<1>1. Len(a) \in Nat /\ Len(b) \in Nat
  OBVIOUS
<1>2. DOMAIN (a \o b) = 1..(Len(a) + Len(b))
  <2>1. a \o b \in Seq(Deliveries) /\ Len(a \o b) = Len(a) + Len(b)
    OBVIOUS
  <2> QED BY <2>1
<1>3. PICK i \in 1..(Len(a) + Len(b)) : (a \o b)[i] = e
  BY <1>2 DEF Elements
<1>4. CASE i \in 1..Len(a)
  <2>1. (a \o b)[i] = a[i]
    BY <1>4
  <2>2. a[i] \in Elements(a)
    BY <1>4 DEF Elements
  <2> QED BY <1>3, <2>1, <2>2
<1>5. CASE i \notin 1..Len(a)
  <2>1. i - Len(a) \in 1..Len(b) /\ i > Len(a)
    BY <1>1, <1>5
  <2>2. (a \o b)[i] = b[i - Len(a)]
    BY <2>1, <1>1
  <2> QED BY <1>3, <2>1, <2>2
<1> QED BY <1>4, <1>5

(* A failover keeps what it replays; nothing else is deferred or queued by it. *)
LEMMA ReinitKnown ==
    ASSUME IInv, KnownDelivered, NEW h \in ErrorIds, ReinitSucceeds(h)
    PROVE  KnownDelivered'
<1> DEFINE rec    == handlers[h]
           snap   == IF rec.then = "done" THEN rec.snapshot ELSE <<>>
           prompt == rec.then = "done" /\ rec.prompt
           held   == HeldBack(snap)
           sent   == (Elements(snap) \cup Elements(pendingDeliveries)) \ held
           back   == held \ Elements(pendingDeliveries)
           r      == IF prompt THEN [rec EXCEPT !.at = "reprompted"] ELSE AfterReinit(rec)
<1>1. /\ handlers \in [ErrorIds -> Handler] /\ pendingDeliveries \in Seq(Deliveries)
      /\ rec \in Handler /\ snap \in Seq(Deliveries)
  BY DEF IInv, TypeOK, Handler
<1>2. held \subseteq Known
  <2>1. held \subseteq Elements(snap) \cup Elements(pendingDeliveries)
    BY DEF HeldBack
  <2>2. Elements(snap) \subseteq Known
    BY DEF Known, Elements
  <2> QED BY <2>1, <2>2 DEF Known
<1>3. /\ handlers' = [handlers EXCEPT ![h] = r]
      /\ deferred' = (deferred \ sent) \cup held
      /\ status' = status
      /\ \E readded \in [1..Cardinality(back) -> back] :
              pendingDeliveries' = pendingDeliveries \o readded
  BY DEF ReinitSucceeds
<1>4. r.snapshot \in {rec.snapshot, <<>>}
  BY <1>1, AfterSnapshot DEF Handler
<1>5. back \subseteq held /\ back \subseteq Deliveries /\ Cardinality(back) \in Nat
  <2>1. back \subseteq Known /\ back \subseteq held
    BY <1>2
  <2>2. back \subseteq Deliveries
    BY <2>1, KnownTyped
  <2> HIDE DEF back
  <2> QED BY <2>1, <2>2, CountType
<1> HIDE DEF r, held, sent, back, rec
<1>6. \A k \in ErrorIds : Elements(handlers'[k].snapshot) \subseteq Known
  BY <1>3, <1>4, HandlerMoves DEF rec
<1>7. Elements(pendingDeliveries)' \subseteq Known
  <2> PICK readded \in [1..Cardinality(back) -> back] :
              pendingDeliveries' = pendingDeliveries \o readded
    BY <1>3
  <2>1. readded \in Seq(Deliveries)
    BY <1>5
  <2>4. \A i \in 1..Len(readded) : readded[i] \in back
    BY <1>5
  <2>2. \A e \in Elements(pendingDeliveries \o readded) :
            e \in Elements(pendingDeliveries) \/ \E i \in 1..Len(readded) : e = readded[i]
    BY <1>1, <2>1, ConcatParts
  <2> QED BY <1>2, <1>5, <2>4, <2>2 DEF Known
<1>8. {} \in SUBSET Deliveries /\ \A d \in {} : status'[d] # "new"
  OBVIOUS
<1>9. StatusForward /\ deferred' \subseteq Known \cup {}
  BY <1>2, <1>3 DEF StatusForward, Known
<1>10. Elements(pendingDeliveries)' \subseteq Known \cup {}
  BY <1>7
<1> QED BY <1>6, <1>8, <1>9, <1>10, KnownKept

(* The other steps of the error handler. *)
LEMMA ErrorKnown ==
    ASSUME IInv, KnownDelivered, NEW h \in ErrorIds, ErrorStep(h)
    PROVE  KnownDelivered'
<1> DEFINE rec == handlers[h]
<1>1. /\ rec \in Handler /\ handlers \in [ErrorIds -> Handler] /\ status \in [Deliveries -> Statuses]
      /\ [rec EXCEPT !.then = "compact", !.after = "failover"] \in Handler
      /\ [rec EXCEPT !.then = "replay"] \in Handler /\ [rec EXCEPT !.then = "done"] \in Handler
  <2>1. rec \in Handler
    BY DEF IInv, TypeOK
  <2> HIDE DEF rec
  <2> QED BY <2>1, HandlerType DEF IInv, TypeOK, Statuses, Stages
<1>2. CASE ReinitSucceeds(h)
  BY <1>2, ReinitKnown
<1>3. CASE ~ReinitSucceeds(h)
  <2>1. StatusForward
    <3>1. status' = status \/ status' = Settle(Elements(pendingDeliveries), "rejected")
      BY <1>3 DEF ErrorStep, RetryWakes, RetryPrompted, Awaited, FreshEnds, ReinitFails, ReinitPrompted,
                CompactEnds, Recovered, RejectAll, Resend, queueVars
    <3> QED BY <3>1, SettleForward DEF StatusForward
  <2>2. deferred' \subseteq deferred
    BY <1>3 DEF ErrorStep, RetryWakes, RetryPrompted, Awaited, FreshEnds, ReinitFails, ReinitPrompted,
                CompactEnds, Recovered, RejectAll, Resend, ReplayOn, NoReplay, queueVars
  <2>3. pendingDeliveries' \in {pendingDeliveries, <<>>}
    BY <1>3 DEF ErrorStep, RetryWakes, RetryPrompted, Awaited, FreshEnds, ReinitFails, ReinitPrompted,
                CompactEnds, Recovered, RejectAll, Resend, ReplayOn, NoReplay, queueVars
  <2>4. Elements(pendingDeliveries)' \subseteq Elements(pendingDeliveries)
    BY <2>3 DEF Elements
  <2>5. \A k \in ErrorIds : Elements(handlers'[k].snapshot) \subseteq Known
    <3>1. ASSUME NEW r \in {rec, [rec EXCEPT !.then = "compact", !.after = "failover"],
                            [rec EXCEPT !.then = "replay"], [rec EXCEPT !.then = "done"]},
                 StartReinit(h, r)
          PROVE  \A k \in ErrorIds : Elements(handlers'[k].snapshot) \subseteq Known
      <4>1. r \in Handler
        BY <1>1, <3>1
      <4>2. r.snapshot = handlers[h].snapshot
        BY <1>1, <3>1 DEF Handler
      <4> QED BY <3>1, <4>1, <4>2, StartSnapshots
    <3>2. ASSUME NEW r \in {Finished, AfterReinit(rec), [rec EXCEPT !.at = "prompted"], [rec EXCEPT !.at = "init"],
                            [rec EXCEPT !.at = "recovered"], [rec EXCEPT !.at = "await", !.then = "done"]},
                 handlers' = [handlers EXCEPT ![h] = r]
          PROVE  \A k \in ErrorIds : Elements(handlers'[k].snapshot) \subseteq Known
      <4>1. r.snapshot \in {handlers[h].snapshot, <<>>}
        BY <1>1, <3>2, AfterSnapshot DEF Handler, Finished, Idle
      <4> QED BY <3>2, <4>1, HandlerMoves
    <3>3. CASE RetryWakes(h) \/ RetryPrompted(h)
      <4>1. \/ handlers' = [handlers EXCEPT ![h] = Finished]
            \/ handlers' = [handlers EXCEPT ![h] = [rec EXCEPT !.at = "prompted"]]
        BY <3>3 DEF RetryWakes, RetryPrompted, Resend
      <4> QED BY <3>2, <4>1
    <3>4. CASE Awaited(h)
      <4>1. \/ handlers' = [handlers EXCEPT ![h] = Finished]
            \/ StartReinit(h, rec)
            \/ StartReinit(h, [rec EXCEPT !.then = "compact", !.after = "failover"])
        BY <3>4 DEF Awaited
      <4> QED BY <3>1, <3>2, <4>1
    <3>5. CASE FreshEnds(h) \/ ReinitFails(h) \/ ReinitPrompted(h)
      <4>1. \/ handlers' = [handlers EXCEPT ![h] = Finished]
            \/ handlers' = [handlers EXCEPT ![h] = AfterReinit(rec)]
            \/ handlers' = [handlers EXCEPT ![h] = [rec EXCEPT !.at = "init"]]
        BY <3>5 DEF FreshEnds, ReinitFails, ReinitPrompted
      <4> QED BY <3>2, <4>1
    <3>6. CASE CompactEnds(h) \/ Recovered(h)
      <4>1. \/ handlers' = [handlers EXCEPT ![h] = Finished]
            \/ handlers' = [handlers EXCEPT ![h] = [rec EXCEPT !.at = "recovered"]]
            \/ handlers' = [handlers EXCEPT ![h] = [rec EXCEPT !.at = "await", !.then = "done"]]
            \/ StartReinit(h, [rec EXCEPT !.then = "replay"])
            \/ StartReinit(h, [rec EXCEPT !.then = "done"])
        BY <3>6 DEF CompactEnds, Recovered
      <4> QED BY <3>1, <3>2, <4>1
    <3> QED BY <1>3, <3>3, <3>4, <3>5, <3>6 DEF ErrorStep
  <2> QED BY <2>1, <2>2, <2>4, <2>5, QueueKnown
<1> QED BY <1>2, <1>3

(* A run fails: its handler takes a snapshot of the queue. *)
LEMMA RunFailsKnown ==
    ASSUME IInv, KnownDelivered, NEW s, NEW h \in ErrorIds, NEW decision, NEW wireSize,
           RunFails(s, h, decision, wireSize)
    PROVE  KnownDelivered'
<1> DEFINE q == IF currentTurnHasOutput \/ wireSize THEN <<>> ELSE pendingDeliveries
<1>1. handlers' = [handlers EXCEPT ![h] = FirstStage(decision, q)]
  BY DEF RunFails
<1>2. FirstStage(decision, q).snapshot \in {q, <<>>}
  <2> DEFINE rec == [Idle EXCEPT !.snapshot = q, !.prompt = pendingPrompt]
  <2>1. q \in Seq(Deliveries) /\ pendingPrompt \in BOOLEAN
    BY DEF IInv, TypeOK
  <2> HIDE DEF q
  <2>2. rec \in Handler /\ rec.snapshot = q
    BY <2>1, HandlerConstants DEF Handler
  <2> HIDE DEF rec
  <2>3. /\ [rec EXCEPT !.at = "sleep"].snapshot = q /\ [rec EXCEPT !.at = "await"].snapshot = q
        /\ [rec EXCEPT !.at = "fresh"].snapshot = q
        /\ [rec EXCEPT !.at = "fresh", !.then = "compact"].snapshot = q
    BY <2>2 DEF Handler
  <2>4. Finished.snapshot = <<>>
    BY DEF Finished, Idle
  <2>5. FirstStage(decision, q) \in {[rec EXCEPT !.at = "sleep"], [rec EXCEPT !.at = "await"],
            [rec EXCEPT !.at = "fresh"], [rec EXCEPT !.at = "fresh", !.then = "compact"], Finished}
    BY DEF FirstStage, rec
  <2> QED BY <2>3, <2>4, <2>5
<1>3. q \in {<<>>, pendingDeliveries}
  OBVIOUS
<1> HIDE DEF q
<1>4. \A k \in ErrorIds : Elements(handlers'[k].snapshot) \subseteq Known
  BY <1>1, <1>2, <1>3, HandlerMoves
<1>5. StatusForward
  <2>1. status' = status \/ status' = Settle(Elements(pendingDeliveries), "rejected")
    BY DEF RunFails, RejectAll
  <2> QED BY <2>1, SettleForward DEF StatusForward
<1>6. deferred' = deferred /\ pendingDeliveries' \in {pendingDeliveries, <<>>}
  BY DEF RunFails, RejectAll
<1>7. Elements(pendingDeliveries)' \subseteq Elements(pendingDeliveries)
  BY <1>6 DEF Elements
<1> QED BY <1>4, <1>5, <1>6, <1>7, QueueKnown

(* Every step. *)
LEMMA NextKnown ==
    ASSUME IInv, KnownDelivered, [Next]_vars
    PROVE  KnownDelivered'
<1>1. CASE \/ \E r \in reloading : ReloadEnds(r)
           \/ \E f \in failedSends : SendFails(f)
           \/ \E d \in Deliveries : DeferTimeout(d) \/ DispatchTimeout(d)
           \/ Abort
           \/ \E s \in Sessions : \E errored \in BOOLEAN : RunEnds(s, errored)
  BY <1>1, DropsKnown
<1>2. CASE \E d \in Deliveries : DeliverRejected(d) \/ DeliverMessage(d)
  BY <1>2, DeliverKnown
<1>3. CASE \E h \in ErrorIds : ErrorStep(h)
  BY <1>3, ErrorKnown
<1>4. CASE \E s \in Sessions : \E h \in ErrorIds, decision \in Decisions, wireSize \in BOOLEAN :
              RunFails(s, h, decision, wireSize)
  BY <1>4, RunFailsKnown
<1>5. CASE \/ UserPrompt \/ PromptReloadEnds
           \/ \E s \in Sessions : TurnStarts(s) \/ ModelOutput(s) \/ RunEndsUnseen(s)
           \/ ResetSucceeds \/ ResetFails \/ Reclaim \/ UNCHANGED vars
  <2>1. handlers' = handlers
    BY <1>5 DEF UserPrompt, PromptReloadEnds, TurnStarts, ModelOutput, RunEndsUnseen,
                ResetSucceeds, ResetFails, Reclaim, vars
  <2>2. status' = status \/ status' = Settle(Elements(pendingDeliveries), "rejected")
    BY <1>5 DEF UserPrompt, PromptReloadEnds, TurnStarts, ModelOutput, RunEndsUnseen,
                ResetSucceeds, ResetFails, Reclaim, vars, queueVars, RejectAll
  <2>3. deferred' \subseteq deferred /\ pendingDeliveries' \in {pendingDeliveries, <<>>}
    BY <1>5 DEF UserPrompt, PromptReloadEnds, TurnStarts, ModelOutput, RunEndsUnseen,
                ResetSucceeds, ResetFails, Reclaim, vars, queueVars, RejectAll, ReplayOn
  <2>4. StatusForward
    BY <2>2, SettleForward DEF StatusForward
  <2>5. Elements(pendingDeliveries)' \subseteq Elements(pendingDeliveries)
    BY <2>3 DEF Elements
  <2> QED BY <2>1, <2>3, <2>4, <2>5, QueueKnown, SnapshotsKnown
<1> QED BY <1>1, <1>2, <1>3, <1>4, <1>5 DEF Next

-----------------------------------------------------------------------------
(* Roles that do not reset their session *)

(* The session is only ever replaced. *)
Tended == session # 0 /\ resetInits = 0

WatchInv == IInv /\ KnownDelivered /\ Guarded /\ Tended

(* No step leaves such a host without a session. *)
LEMMA NextTended ==
    ASSUME ~ResetRole, Tended, IInv, [Next]_vars
    PROVE  Tended'
<1>1. 0 \notin Sessions
  BY ConstantsAssumption
<1>2. CASE \E s \in Sessions : Install(s) /\ UNCHANGED resetInits
  BY <1>1, <1>2 DEF Tended, Install
<1>3. CASE session' = session /\ resetInits' = resetInits
  BY <1>3 DEF Tended
<1>4. ~ResetSucceeds /\ ~ResetFails /\ ~Reclaim
  BY DEF ResetSucceeds, ResetFails, Reclaim, Tended
<1>5. ASSUME NEW s, \/ \E errored : RunEnds(s, errored)
                    \/ \E h, decision, wireSize : RunFails(s, h, decision, wireSize)
      PROVE  session' = session /\ resetInits' = resetInits
  BY <1>5 DEF RunEnds, RunFails, sessionVars
<1>6. ASSUME NEW h, ErrorStep(h)
      PROVE  \/ session' = session /\ resetInits' = resetInits
             \/ \E s \in Sessions : Install(s) /\ UNCHANGED resetInits
  BY <1>6 DEF ErrorStep, RetryWakes, RetryPrompted, Awaited, FreshEnds, ReinitSucceeds, ReinitFails,
              ReinitPrompted, CompactEnds, Recovered, sessionVars
<1>7. ASSUME \/ \E d \in Deliveries : \/ DeliverRejected(d) \/ DeliverMessage(d)
                                      \/ DeferTimeout(d) \/ DispatchTimeout(d)
             \/ \E r \in reloading : ReloadEnds(r)
             \/ \E f \in failedSends : SendFails(f)
             \/ UserPrompt \/ PromptReloadEnds \/ Abort
             \/ \E s \in Sessions : TurnStarts(s) \/ ModelOutput(s) \/ RunEndsUnseen(s)
             \/ UNCHANGED vars
      PROVE  session' = session /\ resetInits' = resetInits
  BY <1>7 DEF DeliverRejected, DeliverMessage, DeferTimeout, DispatchTimeout, ReloadEnds, SendFails,
              UserPrompt, PromptReloadEnds, Abort, TurnStarts, ModelOutput, RunEndsUnseen, vars, sessionVars
<1> QED BY <1>2, <1>3, <1>4, <1>5, <1>6, <1>7 DEF Next

(* "Outside a reinitialization every unanswered delivery has a watchdog": for roles
   that keep their session, whatever requests fail, recover, overlap or give up, and
   whatever is aborted, rejected or lost (deliverMessage, armDispatchTimer and the
   replay loops of host.ts).                                                        *)
THEOREM AlwaysWatched == ASSUME ~ResetRole PROVE Spec => []Watched
<1>1. Init => WatchInv
  <2> SUFFICES ASSUME Init PROVE WatchInv
    OBVIOUS
  <2>1. IInv
    BY InitIInv
  <2>2. KnownDelivered /\ Guarded /\ Tended
    BY DEF Init, KnownDelivered, Known, Elements, Idle, Guarded, Tended
  <2> QED BY <2>1, <2>2 DEF WatchInv
<1>2. WatchInv /\ [Next]_vars => WatchInv'
  <2> SUFFICES ASSUME WatchInv, [Next]_vars PROVE WatchInv'
    OBVIOUS
  <2>1. ResetsSafe
    BY DEF ResetsSafe, WatchInv, Tended
  <2> QED BY <2>1, NextIInv, NextKnown, NextGuards, NextTended DEF WatchInv
<1>3. WatchInv => Watched
  BY DEF WatchInv, IInv, TypeOK, Guarded, Tended, Watched
<1> QED BY <1>1, <1>2, <1>3, PTL DEF Spec

-----------------------------------------------------------------------------
(* Failovers, and the sessions they listen to *)

\* The handler's initialize() is under way.
Busy(h) == handlers[h].at \in {"fresh", "init"}

\* No reinitialization restores its prompt while another is under way: the first to
\* finish would clear the flag of the other.
Apart == \A h, k \in ErrorIds : handlers[h].at = "reprompted" => ~Busy(k)

(* One failover at a time, and it has the flag; the session is heard until a failover
   detaches it, and its successor is.                                               *)
Heard ==
    /\ \A h \in ErrorIds : Busy(h) => isReinitializing
    /\ \A h, k \in ErrorIds : Busy(h) /\ Busy(k) => h = k
    /\ session \in subscribed \/ \E h \in ErrorIds : handlers[h].at = "init"

(* Where a handler is once a reinitialization is behind it. *)
LEMMA AfterStage ==
    ASSUME NEW rec \in Handler
    PROVE  AfterReinit(rec).at \in {"finished", "compact", "recovered"}
BY DEF Handler, AfterReinit, Finished, Idle

(* A handler that is not reinitializing moves on, and does not start to. *)
LEMMA StageHeard ==
    ASSUME IInv, Heard, NEW h \in ErrorIds, NEW r, handlers' = [handlers EXCEPT ![h] = r],
           r.at \notin {"fresh", "init"}, ~Busy(h),
           isReinitializing' \in {isReinitializing, TRUE}, UNCHANGED <<session, subscribed>>
    PROVE  Heard'
<1>1. handlers'[h] = r /\ \A k \in ErrorIds \ {h} : handlers'[k] = handlers[k]
  BY DEF IInv, TypeOK
<1>2. \A k \in ErrorIds : /\ Busy(k)' => Busy(k)
                          /\ handlers[k].at = "init" => handlers'[k].at = "init"
  BY <1>1 DEF Busy
<1>3. isReinitializing \in BOOLEAN
  BY DEF IInv, TypeOK
<1>4. \A k \in ErrorIds : Busy(k)' => isReinitializing'
  <2>1. \A k \in ErrorIds : Busy(k)' => isReinitializing
    BY <1>2 DEF Heard
  <2>2. isReinitializing => isReinitializing'
    BY <1>3
  <2> QED BY <2>1, <2>2
<1>5. \A k, l \in ErrorIds : Busy(k)' /\ Busy(l)' => k = l
  BY <1>2 DEF Heard
<1> QED BY <1>2, <1>4, <1>5 DEF Heard

(* It starts to: as the only one. *)
LEMMA StartHeard ==
    ASSUME IInv, Heard, NEW h \in ErrorIds, NEW rec \in Handler, StartReinit(h, rec),
           ~Busy(h), UNCHANGED <<session, subscribed>>
    PROVE  Heard'
<1>1. CASE isReinitializing
  <2>1. handlers' = [handlers EXCEPT ![h] = AfterReinit(rec)] /\ isReinitializing' = TRUE
    BY <1>1 DEF StartReinit
  <2> QED BY <2>1, AfterStage, StageHeard
<1>2. CASE ~isReinitializing
  <2>1. handlers' = [handlers EXCEPT ![h] = [rec EXCEPT !.at = "fresh"]] /\ isReinitializing' = TRUE
    BY <1>2 DEF StartReinit
  <2>2. \A k \in ErrorIds \ {h} : handlers'[k] = handlers[k]
    BY <2>1 DEF IInv, TypeOK
  <2>3. \A k \in ErrorIds : ~Busy(k)
    BY <1>2 DEF Heard
  <2>4. \A k \in ErrorIds : Busy(k)' => k = h
    BY <2>2, <2>3 DEF Busy
  <2>5. session \in subscribed
    BY <2>3 DEF Heard, Busy
  <2> QED BY <2>1, <2>4, <2>5 DEF Heard
<1> QED BY <1>1, <1>2

(* Every step of the error handler. *)
LEMMA ErrorHeard ==
    ASSUME "initFails" \notin Env, IInv, Apart, Heard, NEW h \in ErrorIds, ErrorStep(h)
    PROVE  Heard'
<1> DEFINE rec == handlers[h]
<1>1. /\ rec \in Handler /\ handlers \in [ErrorIds -> Handler] /\ isReinitializing \in BOOLEAN
      /\ [rec EXCEPT !.then = "compact", !.after = "failover"] \in Handler
      /\ [rec EXCEPT !.then = "replay"] \in Handler /\ [rec EXCEPT !.then = "done"] \in Handler
  <2>1. rec \in Handler
    BY DEF IInv, TypeOK
  <2> HIDE DEF rec
  <2>2. handlers \in [ErrorIds -> Handler] /\ isReinitializing \in BOOLEAN
    BY DEF IInv, TypeOK
  <2> QED BY <2>1, <2>2, HandlerType DEF Stages
<1>2. Finished.at = "finished"
  BY DEF Finished, Idle
<1>3. CASE RetryWakes(h) \/ RetryPrompted(h)
  <2>1. /\ ~Busy(h) /\ UNCHANGED <<session, subscribed, isReinitializing>>
        /\ \/ handlers' = [handlers EXCEPT ![h] = Finished]
           \/ handlers' = [handlers EXCEPT ![h] = [rec EXCEPT !.at = "prompted"]]
    BY <1>3 DEF RetryWakes, RetryPrompted, Resend, Busy, sessionVars
  <2>2. [rec EXCEPT !.at = "prompted"].at = "prompted"
    BY <1>1 DEF Handler
  <2> QED BY <1>2, <2>1, <2>2, StageHeard
<1>4. CASE Awaited(h)
  <2>1. /\ ~Busy(h) /\ UNCHANGED <<session, subscribed>>
        /\ \/ handlers' = [handlers EXCEPT ![h] = Finished] /\ UNCHANGED isReinitializing
           \/ StartReinit(h, rec)
           \/ StartReinit(h, [rec EXCEPT !.then = "compact", !.after = "failover"])
    BY <1>4 DEF Awaited, Busy
  <2> QED BY <1>1, <1>2, <2>1, StageHeard, StartHeard
<1>5. CASE FreshEnds(h)
  <2>1. /\ handlers' = [handlers EXCEPT ![h] = [rec EXCEPT !.at = "init"]] /\ Busy(h)
        /\ isReinitializing' = isReinitializing
    BY <1>5 DEF FreshEnds, Busy
  <2>2. /\ handlers'[h].at = "init" /\ \A k \in ErrorIds \ {h} : handlers'[k] = handlers[k]
    BY <1>1, <2>1 DEF Handler
  <2>3. \A k \in ErrorIds : Busy(k)' => Busy(k)
    BY <2>1, <2>2 DEF Busy
  <2> QED BY <2>1, <2>2, <2>3 DEF Heard
<1>6. CASE ReinitSucceeds(h)
  <2>1. PICK r \in {[rec EXCEPT !.at = "reprompted"], AfterReinit(rec)} :
            handlers' = [handlers EXCEPT ![h] = r]
    BY <1>6 DEF ReinitSucceeds
  <2>2. r.at \notin {"fresh", "init"}
    <3>1. [rec EXCEPT !.at = "reprompted"].at = "reprompted"
      BY <1>1 DEF Handler
    <3> QED BY <1>1, <2>1, <3>1, AfterStage
  <2>3. Busy(h) /\ session' \in subscribed'
    BY <1>6 DEF ReinitSucceeds, Install, Busy
  <2>4. handlers'[h] = r /\ \A k \in ErrorIds \ {h} : handlers'[k] = handlers[k]
    BY <1>1, <2>1
  <2>5. \A k \in ErrorIds : ~Busy(k)'
    BY <2>2, <2>3, <2>4 DEF Heard, Busy
  <2> QED BY <2>3, <2>5 DEF Heard
<1>7. CASE ReinitPrompted(h)
  <2>1. /\ handlers' = [handlers EXCEPT ![h] = Finished] /\ UNCHANGED <<session, subscribed>>
        /\ rec.at = "reprompted"
    BY <1>7 DEF ReinitPrompted
  <2>2. \A k \in ErrorIds : ~Busy(k)
    BY <2>1 DEF Apart
  <2>3. \A k \in ErrorIds : ~Busy(k)'
    BY <1>1, <1>2, <2>1, <2>2 DEF Busy
  <2>4. session \in subscribed
    BY <2>2 DEF Heard, Busy
  <2> QED BY <2>1, <2>3, <2>4 DEF Heard
<1>8. CASE CompactEnds(h) \/ Recovered(h)
  <2>1. /\ ~Busy(h) /\ UNCHANGED <<session, subscribed>>
        /\ \/ /\ \/ handlers' = [handlers EXCEPT ![h] = Finished]
                 \/ handlers' = [handlers EXCEPT ![h] = [rec EXCEPT !.at = "recovered"]]
                 \/ handlers' = [handlers EXCEPT ![h] = [rec EXCEPT !.at = "await", !.then = "done"]]
              /\ UNCHANGED isReinitializing
           \/ StartReinit(h, [rec EXCEPT !.then = "replay"])
           \/ StartReinit(h, [rec EXCEPT !.then = "done"])
    BY <1>8 DEF CompactEnds, Recovered, Busy
  <2>2. [rec EXCEPT !.at = "recovered"].at = "recovered" /\ [rec EXCEPT !.at = "await", !.then = "done"].at = "await"
    BY <1>1 DEF Handler
  <2> QED BY <1>1, <1>2, <2>1, <2>2, StageHeard, StartHeard
<1>9. ~ReinitFails(h)
  BY DEF ReinitFails
<1> QED BY <1>3, <1>4, <1>5, <1>6, <1>7, <1>8, <1>9 DEF ErrorStep

(* Every step of a role that keeps its session. *)
LEMMA NextHeard ==
    ASSUME ~ResetRole, "initFails" \notin Env, Tended, IInv, Apart, Heard, [Next]_vars
    PROVE  Heard'
<1>1. CASE \E h \in ErrorIds : ErrorStep(h)
  BY <1>1, ErrorHeard
<1>2. ASSUME NEW s, NEW h \in ErrorIds, NEW decision, NEW wireSize, RunFails(s, h, decision, wireSize)
      PROVE  Heard'
  <2> DEFINE q == IF currentTurnHasOutput \/ wireSize THEN <<>> ELSE pendingDeliveries
             r == FirstStage(decision, q)
  <2>1. /\ handlers' = [handlers EXCEPT ![h] = r]
        /\ isReinitializing' = (decision \in {"failover", "overflow"})
        /\ UNCHANGED <<session, subscribed>>
        /\ ~isReinitializing
    BY <1>2 DEF RunFails
  <2>2. r.at \in {"fresh", "init"} => decision \in {"failover", "overflow"}
    <3> DEFINE new == [Idle EXCEPT !.snapshot = q, !.prompt = pendingPrompt]
    <3>1. [new EXCEPT !.at = "sleep"].at = "sleep" /\ [new EXCEPT !.at = "await"].at = "await"
          /\ Finished.at = "finished"
      BY DEF Idle, Finished
    <3>2. decision \notin {"failover", "overflow"} =>
              r \in {[new EXCEPT !.at = "sleep"], [new EXCEPT !.at = "await"], Finished}
      BY DEF FirstStage
    <3> HIDE DEF new, r
    <3> QED BY <3>1, <3>2
  <2> HIDE DEF r
  <2>3. \A k \in ErrorIds : ~Busy(k)
    BY <2>1 DEF Heard
  <2>4. handlers'[h] = r /\ \A k \in ErrorIds \ {h} : handlers'[k] = handlers[k]
    BY <2>1 DEF IInv, TypeOK
  <2>5. \A k \in ErrorIds : Busy(k)' => k = h /\ isReinitializing'
    BY <2>1, <2>2, <2>3, <2>4 DEF Busy
  <2>6. session \in subscribed
    BY <2>3 DEF Heard, Busy
  <2> QED BY <2>1, <2>5, <2>6 DEF Heard
<1>3. ASSUME NEW s, NEW errored, RunEnds(s, errored)
      PROVE  UNCHANGED <<sessionVars, handlers>>
  BY <1>3 DEF RunEnds
<1>4. CASE \/ \E d \in Deliveries : \/ DeliverRejected(d) \/ DeliverMessage(d)
                                    \/ DeferTimeout(d) \/ DispatchTimeout(d)
           \/ \E r \in reloading : ReloadEnds(r)
           \/ \E f \in failedSends : SendFails(f)
           \/ UserPrompt \/ PromptReloadEnds \/ Abort
           \/ \E s \in Sessions : TurnStarts(s) \/ ModelOutput(s) \/ RunEndsUnseen(s)
           \/ UNCHANGED vars
  <2>1. UNCHANGED <<sessionVars, handlers>>
    BY <1>4 DEF DeliverRejected, DeliverMessage, DeferTimeout, DispatchTimeout, ReloadEnds, SendFails,
                UserPrompt, PromptReloadEnds, Abort, TurnStarts, ModelOutput, RunEndsUnseen, vars
  <2> QED BY <2>1 DEF sessionVars, Heard, Busy
<1>5. CASE \E s \in Sessions : \E errored \in BOOLEAN : RunEnds(s, errored)
  <2>1. UNCHANGED <<sessionVars, handlers>>
    BY <1>3, <1>5
  <2> QED BY <2>1 DEF sessionVars, Heard, Busy
<1>6. ~ResetSucceeds /\ ~ResetFails /\ ~Reclaim
  BY DEF ResetSucceeds, ResetFails, Reclaim, Tended
<1> QED BY <1>1, <1>2, <1>4, <1>5, <1>6 DEF Next

(* Nobody prompts: no handler has a prompt to restore. *)
Unprompted == ~pendingPrompt /\ \A h \in ErrorIds : ~handlers[h].prompt /\ handlers[h].at # "reprompted"

(* And none brings one up. *)
LEMMA NextUnprompted ==
    ASSUME "prompt" \notin Env, IInv, Unprompted, [Next]_vars
    PROVE  Unprompted'
<1>1. handlers \in [ErrorIds -> Handler]
  BY DEF IInv, TypeOK
<1>2. ASSUME NEW h \in ErrorIds, NEW r, handlers' = [handlers EXCEPT ![h] = r],
             ~r.prompt, r.at # "reprompted", ~pendingPrompt'
      PROVE  Unprompted'
  BY <1>1, <1>2 DEF Unprompted
<1>3. Finished.prompt = FALSE /\ Finished.at = "finished"
  BY DEF Finished, Idle
<1>4. ASSUME NEW rec \in Handler, ~rec.prompt
      PROVE  /\ AfterReinit(rec).at # "reprompted" /\ ~AfterReinit(rec).prompt
             /\ \A stage \in Stages : [rec EXCEPT !.at = stage].at = stage /\ ~[rec EXCEPT !.at = stage].prompt
             /\ ~[rec EXCEPT !.then = "compact", !.after = "failover"].prompt
             /\ ~[rec EXCEPT !.then = "replay"].prompt
             /\ ~[rec EXCEPT !.then = "done"].prompt
             /\ ~[rec EXCEPT !.at = "await", !.then = "done"].prompt
             /\ [rec EXCEPT !.at = "await", !.then = "done"].at = "await"
  <2>1. AfterReinit(rec).at # "reprompted"
    BY AfterStage
  <2>2. ~AfterReinit(rec).prompt
    BY <1>3, <1>4 DEF AfterReinit, Handler
  <2>3. \A stage \in Stages : [rec EXCEPT !.at = stage].at = stage /\ ~[rec EXCEPT !.at = stage].prompt
    BY <1>4 DEF Handler
  <2>4. /\ ~[rec EXCEPT !.then = "compact", !.after = "failover"].prompt
        /\ ~[rec EXCEPT !.then = "replay"].prompt
        /\ ~[rec EXCEPT !.then = "done"].prompt
        /\ ~[rec EXCEPT !.at = "await", !.then = "done"].prompt
        /\ [rec EXCEPT !.at = "await", !.then = "done"].at = "await"
    BY <1>4 DEF Handler
  <2> QED BY <2>1, <2>2, <2>3, <2>4
<1>5. ASSUME NEW h \in ErrorIds, NEW rec \in Handler, ~rec.prompt, StartReinit(h, rec), ~pendingPrompt'
      PROVE  Unprompted'
  <2> DEFINE r == IF isReinitializing THEN AfterReinit(rec) ELSE [rec EXCEPT !.at = "fresh"]
  <2>1. handlers' = [handlers EXCEPT ![h] = r]
    BY <1>5 DEF StartReinit
  <2>2. ~r.prompt /\ r.at # "reprompted"
    <3>1. "fresh" \in Stages
      BY DEF Stages
    <3> QED BY <1>4, <1>5, <3>1
  <2> HIDE DEF r
  <2> QED BY <1>2, <1>5, <2>1, <2>2
<1>6. ASSUME NEW h \in ErrorIds, ErrorStep(h)
      PROVE  Unprompted'
  <2> DEFINE rec == handlers[h]
             compacted == [rec EXCEPT !.then = "compact", !.after = "failover"]
             replayed == [rec EXCEPT !.then = "replay"]
             done == [rec EXCEPT !.then = "done"]
  <2>1. rec \in Handler /\ ~rec.prompt /\ rec.at # "reprompted" /\ ~pendingPrompt
    BY <1>1 DEF Unprompted
  <2> HIDE DEF rec
  <2>2. /\ compacted \in Handler /\ replayed \in Handler /\ done \in Handler
    BY <2>1, HandlerType DEF Stages
  <2>3. ~compacted.prompt /\ ~replayed.prompt /\ ~done.prompt
    BY <1>4, <2>1
  <2>4. CASE \/ StartReinit(h, rec) \/ StartReinit(h, compacted)
             \/ StartReinit(h, replayed) \/ StartReinit(h, done)
    <3>1. ~pendingPrompt'
      <4>1. ~RetryWakes(h) \/ pendingPrompt' = pendingPrompt
        BY <2>1 DEF RetryWakes, rec
      <4>2. ReinitSucceeds(h) => ~pendingPrompt'
        BY <2>1 DEF ReinitSucceeds, rec
      <4> QED BY <1>6, <2>1, <4>1, <4>2 DEF ErrorStep, RetryPrompted, Awaited, FreshEnds, ReinitFails,
                    ReinitPrompted, CompactEnds, Recovered, promptVars
    <3> HIDE DEF compacted, replayed, done
    <3> QED BY <1>5, <2>1, <2>2, <2>3, <2>4, <3>1
  <2>5. CASE \/ handlers' = [handlers EXCEPT ![h] = Finished]
             \/ handlers' = [handlers EXCEPT ![h] = AfterReinit(rec)]
             \/ handlers' = [handlers EXCEPT ![h] = [rec EXCEPT !.at = "init"]]
             \/ handlers' = [handlers EXCEPT ![h] = [rec EXCEPT !.at = "recovered"]]
             \/ handlers' = [handlers EXCEPT ![h] = [rec EXCEPT !.at = "await", !.then = "done"]]
    <3>1. ~pendingPrompt'
      <4>1. ~RetryWakes(h) \/ pendingPrompt' = pendingPrompt
        BY <2>1 DEF RetryWakes, rec
      <4>2. ReinitSucceeds(h) => ~pendingPrompt'
        BY <2>1 DEF ReinitSucceeds, rec
      <4> QED BY <1>6, <2>1, <4>1, <4>2 DEF ErrorStep, RetryPrompted, Awaited, FreshEnds, ReinitFails,
                    ReinitPrompted, CompactEnds, Recovered, promptVars
    <3>2. PICK r \in {Finished, AfterReinit(rec), [rec EXCEPT !.at = "init"], [rec EXCEPT !.at = "recovered"],
                      [rec EXCEPT !.at = "await", !.then = "done"]} : handlers' = [handlers EXCEPT ![h] = r]
      BY <2>5
    <3>3. ~r.prompt /\ r.at # "reprompted"
      <4>1. "init" \in Stages /\ "recovered" \in Stages
        BY DEF Stages
      <4> QED BY <1>3, <1>4, <2>1, <3>2, <4>1
    <3> QED BY <1>2, <3>1, <3>2, <3>3
  <2>6. CASE RetryWakes(h) \/ RetryPrompted(h) \/ ReinitSucceeds(h)
    <3>1. \/ handlers' = [handlers EXCEPT ![h] = Finished]
          \/ handlers' = [handlers EXCEPT ![h] = AfterReinit(rec)]
      BY <2>1, <2>6 DEF RetryWakes, RetryPrompted, Resend, ReinitSucceeds, rec
    <3> QED BY <2>5, <3>1
  <2>7. CASE Awaited(h) \/ CompactEnds(h) \/ Recovered(h)
    BY <2>4, <2>5, <2>7 DEF Awaited, CompactEnds, Recovered, rec
  <2>8. CASE FreshEnds(h) \/ ReinitFails(h) \/ ReinitPrompted(h)
    BY <2>5, <2>8 DEF FreshEnds, ReinitFails, ReinitPrompted, rec
  <2> QED BY <1>6, <2>6, <2>7, <2>8 DEF ErrorStep
<1>7. ASSUME NEW s, NEW h \in ErrorIds, NEW decision, NEW wireSize, RunFails(s, h, decision, wireSize)
      PROVE  Unprompted'
  <2> DEFINE q == IF currentTurnHasOutput \/ wireSize THEN <<>> ELSE pendingDeliveries
             new == [Idle EXCEPT !.snapshot = q, !.prompt = pendingPrompt]
             r == FirstStage(decision, q)
  <2>1. handlers' = [handlers EXCEPT ![h] = r] /\ ~pendingPrompt' /\ ~pendingPrompt /\ pendingPrompt \in BOOLEAN
    BY <1>7 DEF RunFails, promptVars, Unprompted, IInv, TypeOK
  <2>2. q \in Seq(Deliveries)
    BY DEF IInv, TypeOK
  <2> HIDE DEF q
  <2>3. new \in Handler /\ ~new.prompt
    BY <2>1, <2>2, HandlerConstants DEF Handler
  <2>4. r \in {[new EXCEPT !.at = "sleep"], [new EXCEPT !.at = "await"], [new EXCEPT !.at = "fresh"],
               [new EXCEPT !.at = "fresh", !.then = "compact"], Finished}
    BY DEF FirstStage
  <2> HIDE DEF new, r
  <2>5. [new EXCEPT !.at = "fresh", !.then = "compact"].at = "fresh"
        /\ ~[new EXCEPT !.at = "fresh", !.then = "compact"].prompt
    BY <2>3 DEF Handler
  <2>6. "sleep" \in Stages /\ "await" \in Stages /\ "fresh" \in Stages
    BY DEF Stages
  <2>7. ~r.prompt /\ r.at # "reprompted"
    BY <1>3, <1>4, <2>3, <2>4, <2>5, <2>6
  <2> QED BY <1>2, <2>1, <2>7
<1>8. CASE \/ \E d \in Deliveries : \/ DeliverRejected(d) \/ DeliverMessage(d)
                                    \/ DeferTimeout(d) \/ DispatchTimeout(d)
           \/ \E r \in reloading : ReloadEnds(r)
           \/ \E f \in failedSends : SendFails(f)
           \/ UserPrompt \/ PromptReloadEnds \/ Abort
           \/ \E s \in Sessions : \/ TurnStarts(s) \/ ModelOutput(s) \/ RunEndsUnseen(s)
                                  \/ \E errored \in BOOLEAN : RunEnds(s, errored)
           \/ ResetSucceeds \/ ResetFails \/ Reclaim \/ UNCHANGED vars
  <2>1. handlers' = handlers /\ (pendingPrompt' = pendingPrompt \/ pendingPrompt' = FALSE)
    BY <1>8 DEF DeliverRejected, DeliverMessage, DeferTimeout, DispatchTimeout, ReloadEnds, SendFails,
                UserPrompt, PromptReloadEnds, Abort, TurnStarts, ModelOutput, RunEndsUnseen, RunEnds,
                ResetSucceeds, ResetFails, Reclaim, vars, promptVars
  <2> QED BY <2>1 DEF Unprompted
<1> QED BY <1>6, <1>7, <1>8 DEF Next

HeardInv == IInv /\ Tended /\ Heard

(* Session 1 is heard and nothing reinitializes. *)
LEMMA InitHeard == Init => HeardInv
<1>1. Init => IInv
  BY InitIInv
<1>2. Init => Tended /\ Heard
  BY DEF Init, Tended, Heard, Busy, Idle
<1> QED BY <1>1, <1>2 DEF HeardInv

(* What it is for. *)
LEMMA HeardEnough == HeardInv => SessionHeard /\ ReinitFlagHeld
BY DEF HeardInv, Tended, Heard, Busy, SessionHeard, ReinitFlagHeld

(* "A session that deliverMessage would send to is one whose events the host hears",
   through any number of errors, retries, compactions and failovers of a role that keeps
   its session, as long as initialize() works and Apart holds: what can deafen the host
   is a failover that restores its prompt while another is under way, or one that fails. *)
THEOREM FailoversHeard ==
    ASSUME ~ResetRole, "initFails" \notin Env
    PROVE  Spec /\ []Apart => []SessionHeard
<1>1. HeardInv /\ Apart /\ [Next]_vars => HeardInv'
  BY NextIInv, NextTended, NextHeard DEF HeardInv
<1> QED BY <1>1, InitHeard, HeardEnough, PTL DEF Spec

(* The same without the condition on what the host does: nobody prompts it, or no second
   error comes; and isReinitializing is set whenever a failover is under way.           *)
THEOREM FailoverHeard ==
    ASSUME ~ResetRole, "initFails" \notin Env,
           "prompt" \notin Env \/ \A h, k \in ErrorIds : h = k
    PROVE  Spec => [](SessionHeard /\ ReinitFlagHeld)
<1> DEFINE AnApart == HeardInv /\ ("prompt" \notin Env => Unprompted)
<1>1. Init => AnApart
  <2>1. Init => Unprompted
    BY DEF Init, Unprompted, Idle
  <2> QED BY <2>1, InitHeard
<1>2. AnApart => Apart
  BY DEF Apart, Unprompted, Busy
<1>3. AnApart /\ [Next]_vars => AnApart'
  <2> SUFFICES ASSUME AnApart, [Next]_vars PROVE AnApart'
    OBVIOUS
  <2>1. HeardInv'
    BY <1>2, NextIInv, NextTended, NextHeard DEF HeardInv
  <2>2. "prompt" \notin Env => Unprompted'
    BY NextUnprompted DEF HeardInv
  <2> QED BY <2>1, <2>2
<1>4. AnApart => SessionHeard /\ ReinitFlagHeld
  BY HeardEnough
<1> QED BY <1>1, <1>3, <1>4, PTL DEF Spec

-----------------------------------------------------------------------------
(* Errors that are retried or given up *)

\* No handler reinitializes, and a session is listened to.
Calm ==
    /\ \A h \in ErrorIds : handlers[h].at \in {"idle", "sleep", "prompted", "finished"}
    /\ session # 0 => session \in subscribed

(* No step of such errors, of a run or of a reset changes that. *)
LEMMA NextCalm ==
    ASSUME Decisions \subseteq {"retry", "exhausted"} \/ ErrorIds = {}, IInv, Calm, [Next]_vars
    PROVE  Calm'
<1>1. handlers \in [ErrorIds -> Handler]
  BY DEF IInv, TypeOK
<1>2. ASSUME NEW h \in ErrorIds, NEW r, handlers' = [handlers EXCEPT ![h] = r],
             r.at \in {"sleep", "prompted", "finished"}, session' # 0 => session' \in subscribed'
      PROVE  Calm'
  BY <1>1, <1>2 DEF Calm
<1>3. Finished.at = "finished"
  BY DEF Finished, Idle
<1>4. ASSUME NEW h \in ErrorIds, ErrorStep(h)
      PROVE  Calm'
  <2>1. RetryWakes(h) \/ RetryPrompted(h)
    BY <1>4 DEF Calm, ErrorStep, Awaited, FreshEnds, ReinitSucceeds, ReinitFails, ReinitPrompted,
                CompactEnds, Recovered
  <2>2. /\ \/ handlers' = [handlers EXCEPT ![h] = Finished]
           \/ handlers' = [handlers EXCEPT ![h] = [handlers[h] EXCEPT !.at = "prompted"]]
        /\ UNCHANGED sessionVars
    BY <2>1 DEF RetryWakes, RetryPrompted, Resend
  <2>3. [handlers[h] EXCEPT !.at = "prompted"].at = "prompted"
    <3>1. handlers[h] \in Handler
      BY <1>1
    <3> QED BY <3>1 DEF Handler
  <2>4. session' # 0 => session' \in subscribed'
    BY <2>2 DEF sessionVars, Calm
  <2> QED BY <1>2, <1>3, <2>2, <2>3, <2>4
<1>5. ASSUME NEW s, NEW h \in ErrorIds, NEW decision \in Decisions, NEW wireSize,
             RunFails(s, h, decision, wireSize)
      PROVE  Calm'
  <2> DEFINE q == IF currentTurnHasOutput \/ wireSize THEN <<>> ELSE pendingDeliveries
             new == [Idle EXCEPT !.snapshot = q, !.prompt = pendingPrompt]
             r == FirstStage(decision, q)
  <2>1. /\ handlers' = [handlers EXCEPT ![h] = r] /\ (session' = 0 \/ UNCHANGED <<session, subscribed>>)
    BY <1>5 DEF RunFails, ResetSession
  <2>2. decision \in {"retry", "exhausted"}
    OBVIOUS
  <2>3. r \in {[new EXCEPT !.at = "sleep"], Finished}
    BY <2>2 DEF FirstStage
  <2>4. [new EXCEPT !.at = "sleep"].at = "sleep"
    BY DEF Idle
  <2> HIDE DEF new, r
  <2>5. session' # 0 => session' \in subscribed'
    BY <2>1 DEF Calm
  <2> QED BY <1>2, <1>3, <2>1, <2>3, <2>4, <2>5
<1>6. CASE \/ \E d \in Deliveries : \/ DeliverRejected(d) \/ DeliverMessage(d)
                                    \/ DeferTimeout(d) \/ DispatchTimeout(d)
           \/ \E r \in reloading : ReloadEnds(r)
           \/ \E f \in failedSends : SendFails(f)
           \/ UserPrompt \/ PromptReloadEnds \/ Abort
           \/ \E s \in Sessions : \/ TurnStarts(s) \/ ModelOutput(s) \/ RunEndsUnseen(s)
           \/ ResetFails \/ UNCHANGED vars
  <2>1. UNCHANGED <<session, subscribed, handlers>>
    BY <1>6 DEF DeliverRejected, DeliverMessage, DeferTimeout, DispatchTimeout, ReloadEnds, SendFails,
                UserPrompt, PromptReloadEnds, Abort, TurnStarts, ModelOutput, RunEndsUnseen,
                ResetFails, vars, sessionVars
  <2> QED BY <2>1 DEF Calm
<1>7. CASE \/ \E s \in Sessions : \E errored \in BOOLEAN : RunEnds(s, errored)
           \/ ResetSucceeds \/ Reclaim
  <2>1. /\ handlers' = handlers
        /\ (session' = 0 \/ session' \in subscribed' \/ UNCHANGED <<session, subscribed>>)
    BY <1>7 DEF RunEnds, ResetSucceeds, Reclaim, ResetSession, Install, sessionVars
  <2> QED BY <2>1 DEF Calm
<1> QED BY <1>4, <1>5, <1>6, <1>7 DEF Next

(* The session is heard whatever role the agent has, whatever it is reset for and whether
   the reset works, as long as an error is retried or given up and not failed over.     *)
THEOREM RetriesHeard ==
    ASSUME Decisions \subseteq {"retry", "exhausted"} \/ ErrorIds = {}
    PROVE  Spec => []SessionHeard
<1> DEFINE CalmInv == IInv /\ Calm
<1>1. Init => CalmInv
  <2>1. Init => Calm
    BY DEF Init, Calm, Idle
  <2> QED BY <2>1, InitIInv
<1>2. CalmInv /\ [Next]_vars => CalmInv'
  BY NextIInv, NextCalm
<1>3. CalmInv => SessionHeard
  BY DEF Calm, SessionHeard
<1> QED BY <1>1, <1>2, <1>3, PTL DEF Spec

-----------------------------------------------------------------------------
(***************************************************************************)
(* Hosts none of whose requests errors                                     *)
(***************************************************************************)

\* No run errors, none is lost, and SDK events wait for the sends before them: each of
\* the three breaks a property below (README, section 5).
Healthy == ErrorIds = {} /\ "lostStream" \notin Env /\ "slowSends" \notin Env

-----------------------------------------------------------------------------
(* The inductive invariant *)

First(q, c) == {q[i] : i \in 1..c}

Distinct(q) == \A i, j \in 1..Len(q) : q[i] = q[j] => i = j

\* The entries after the first c are the deferred ones.
Prefix(q, c, D) == c \in 0..Len(q) /\ \A i \in 1..Len(q) : i > c <=> q[i] \in D

\* No scheduled task is among the first c.
Chats(q, c) == \A i \in 1..c : q[i] \notin Scheduled

Queued(q, c, D) ==
    q \in Seq(Deliveries) /\ Distinct(q) /\ Prefix(q, c, D) /\ (c > 1 => Chats(q, c))

\* An entry in flight is in the run r[s], or its send awaits its reload, or its
\* rejection its catch; each just once. An entry that is not in flight is in none.
Loading(rel, s, d)  == [d |-> d, on |-> s] \in rel
Failing(fails, s, d) == [d |-> d, on |-> s, release |-> TRUE] \in fails

Sent(r, rel, fails, s, d) ==
    \/ r[s][d] = 1 /\ ~Loading(rel, s, d) /\ ~Failing(fails, s, d)
    \/ r[s][d] = 0 /\ Loading(rel, s, d) /\ ~Failing(fails, s, d)
    \/ r[s][d] = 0 /\ ~Loading(rel, s, d) /\ Failing(fails, s, d)

Unsent(r, rel, fails, s, d) ==
    r[s][d] = 0 /\ ~Loading(rel, s, d) /\ ~Failing(fails, s, d)

Carries(r, rel, fails, s, S) ==
    \A d \in Deliveries : /\ d \in S => Sent(r, rel, fails, s, d)
                          /\ d \notin S => Unsent(r, rel, fails, s, d)

Release(fails) == \A f \in fails : f.release

Answerable == SettledLeaveQueue /\ \A d \in deferred : status[d] # "new"

WellQueued == Queued(pendingDeliveries, deliverySendCount, deferred)

\* A session is heard, and is the only one; without one a reset is under way, once,
\* or the last one failed.
Attached ==
    IF session = 0
    THEN /\ subscribed = {}
         /\ unsubscribeSession = 0
         /\ deliverySendCount = 0
         /\ resetInits = IF isReinitializing THEN 1 ELSE 0
    ELSE /\ subscribed = {session}
         /\ unsubscribeSession = session
         /\ ~isReinitializing
         /\ resetInits = 0

\* Nothing runs but on the current session.
Elsewhere(r, s) == \A t \in Sessions : t # s => r[t] = NoRun

OnTheWay ==
    session # 0 => Carries(run, reloading, failedSends, session,
                           First(pendingDeliveries, deliverySendCount))

Kept ==
    /\ Answerable
    /\ WellQueued
    /\ Attached
    /\ Elsewhere(run, session)
    /\ Release(failedSends)
    /\ OnTheWay

HInv == IInv /\ Kept

\* What a step is for the senders.
ContractStep == Contract!Next \/ UNCHANGED <<status, processed>>

-----------------------------------------------------------------------------
(* Queues *)

(* The entries in flight when there are none. *)
LEMMA FirstNone == ASSUME NEW q PROVE First(q, 0) = {}
BY DEF First

(* Entries in flight are queued. *)
LEMMA FirstQueued ==
    ASSUME NEW q, NEW c, NEW D, Queued(q, c, D)
    PROVE  First(q, c) \subseteq Elements(q) /\ Elements(q) \subseteq Deliveries
BY DEF First, Queued, Prefix, Elements

(* What a replay dispatches is an interval of the queue, from its count on, and a
   scheduled task is only in it alone, as the head of the queue.                 *)
LEMMA DispatchedInterval ==
    ASSUME NEW q \in Seq(Deliveries), NEW c \in 0..Len(q)
    PROVE  \E m \in c..Len(q) :
              /\ Dispatched(q, c) = (c + 1)..m
              /\ Cardinality(Dispatched(q, c)) = m - c
              /\ \A i \in (c + 1)..m : q[i] \in Scheduled => m = 1
<1> DEFINE S == Dispatched(q, c)
           m == c + Cardinality(S)
<1>1. S \subseteq (c + 1)..Len(q) /\ Len(q) \in Nat
  BY DEF Dispatched
<1>2. \A i \in S : \A j \in (c + 1)..i : j \in S
  <2> SUFFICES ASSUME NEW i \in S, NEW j \in (c + 1)..i PROVE j \in S
    OBVIOUS
  <2>1. i \in (c + 1)..Len(q) /\ \A l \in (c + 1)..i : q[l] \in Scheduled => i = 1
    BY DEF Dispatched
  <2>2. j \in (c + 1)..Len(q) /\ (i = 1 => j = 1)
    BY <2>1
  <2>3. \A l \in (c + 1)..j : l \in (c + 1)..i
    BY <2>1
  <2>4. \A l \in (c + 1)..j : q[l] \in Scheduled => j = 1
    BY <2>1, <2>2, <2>3
  <2> QED BY <2>2, <2>4 DEF Dispatched
<1>3. \A i \in S : q[i] \in Scheduled => i = 1
  BY <1>1 DEF Dispatched
<1>4. \A i \in S : q[1] \in Scheduled /\ 1 \in S => i = 1
  BY <1>1 DEF Dispatched
<1> HIDE DEF S
<1>5. IsFiniteSet(S) /\ Cardinality(S) \in 0..(Len(q) - c)
  <2>1. IsFiniteSet((c + 1)..Len(q)) /\ Cardinality((c + 1)..Len(q)) = Len(q) - c
    <3>1. c + 1 \in Int /\ Len(q) \in Int
      BY <1>1
    <3>2. /\ IsFiniteSet((c + 1)..Len(q))
          /\ Cardinality((c + 1)..Len(q)) =
               IF c + 1 > Len(q) THEN 0 ELSE Len(q) - (c + 1) + 1
      BY <3>1, FS_Interval
    <3> QED BY <1>1, <3>2
  <2>2. IsFiniteSet(S) /\ Cardinality(S) <= Cardinality((c + 1)..Len(q))
    BY <1>1, <2>1, FS_Subset
  <2>3. Cardinality(S) \in Nat
    BY <2>2, FS_CardinalityType
  <2> QED BY <1>1, <2>1, <2>2, <2>3
<1>6. m \in c..Len(q)
  BY <1>1, <1>5
<1>7. ASSUME NEW i \in S PROVE i <= m
  <2>1. (c + 1)..i \subseteq S /\ i \in Nat /\ c + 1 <= i
    BY <1>1, <1>2
  <2>2. Cardinality((c + 1)..i) <= Cardinality(S)
    BY <1>5, <2>1, FS_Subset
  <2>3. Cardinality((c + 1)..i) = i - c
    <3>1. Cardinality((c + 1)..i) = IF c + 1 > i THEN 0 ELSE i - (c + 1) + 1
      BY <2>1, FS_Interval
    <3> QED BY <2>1, <3>1
  <2> QED BY <1>5, <2>1, <2>2, <2>3
<1>8. ASSUME NEW i \in (c + 1)..m, i \notin S PROVE FALSE
  <2>1. S \subseteq (c + 1)..(i - 1)
    <3> SUFFICES ASSUME NEW j \in S, ~(j <= i - 1) PROVE FALSE
      BY <1>1
    <3>1. i \in (c + 1)..j
      BY <1>1
    <3> QED BY <1>2, <1>8, <3>1
  <2>2. IsFiniteSet((c + 1)..(i - 1)) /\ Cardinality((c + 1)..(i - 1)) = i - 1 - c
    <3>1. c + 1 \in Int /\ i - 1 \in Int
      OBVIOUS
    <3>2. /\ IsFiniteSet((c + 1)..(i - 1))
          /\ Cardinality((c + 1)..(i - 1)) =
               IF c + 1 > i - 1 THEN 0 ELSE i - 1 - (c + 1) + 1
      BY <3>1, FS_Interval
    <3> QED BY <3>2, <1>6
  <2>3. Cardinality(S) <= Cardinality((c + 1)..(i - 1))
    BY <2>1, <2>2, FS_Subset
  <2> QED BY <1>5, <1>6, <2>2, <2>3
<1> HIDE DEF m
<1>9. S = (c + 1)..m
  <2>1. ASSUME NEW i \in S PROVE i \in (c + 1)..m
    <3>1. i \in (c + 1)..Len(q) /\ i <= m
      BY <1>1, <1>7
    <3> QED BY <1>1, <1>6, <3>1
  <2>2. \A i \in (c + 1)..m : i \in S
    BY <1>8
  <2> QED BY <2>1, <2>2
<1>10. \A i \in (c + 1)..m : q[i] \in Scheduled => m = 1
  <2> SUFFICES ASSUME NEW i \in (c + 1)..m, q[i] \in Scheduled PROVE m = 1
    OBVIOUS
  <2>1. i = 1 /\ i \in S /\ m \in S
    BY <1>3, <1>6, <1>9
  <2> QED BY <1>4, <2>1
<1>11. Cardinality(S) = m - c
  BY <1>5 DEF m
<1> QED BY <1>6, <1>9, <1>10, <1>11 DEF S

(* Where the entries of a concatenation come from. *)
LEMMA ConcatIndex ==
    ASSUME NEW a \in Seq(Deliveries), NEW b \in Seq(Deliveries)
    PROVE  /\ a \o b \in Seq(Deliveries) /\ Len(a \o b) = Len(a) + Len(b)
           /\ \A i \in 1..Len(a) : (a \o b)[i] = a[i]
           /\ \A i \in 1..Len(b) : (a \o b)[Len(a) + i] = b[i]
<1>1. Len(a) \in Nat /\ Len(b) \in Nat
  OBVIOUS
<1>2. \A i \in 1..Len(a) : (a \o b)[i] = a[i]
  OBVIOUS
<1>3. ASSUME NEW i \in 1..Len(b) PROVE (a \o b)[Len(a) + i] = b[i]
  <2>1. Len(a) + i \in 1..(Len(a) + Len(b)) /\ Len(a) + i > Len(a)
    BY <1>1
  <2> QED BY <1>1, <2>1
<1>4. a \o b \in Seq(Deliveries) /\ Len(a \o b) = Len(a) + Len(b)
  OBVIOUS
<1> QED BY <1>2, <1>3, <1>4

(* Removing an entry: what was in flight before and behind it still is. *)
LEMMA WithoutQueued ==
    ASSUME NEW q, NEW c, NEW D, Queued(q, c, D), NEW p \in 1..Len(q),
           NEW e, e = IF p <= c THEN c - 1 ELSE c
    PROVE  /\ Queued(Without(q, q[p]), e, D)
           /\ Elements(Without(q, q[p])) = Elements(q) \ {q[p]}
           /\ First(Without(q, q[p]), e) = First(q, c) \ {q[p]}
           /\ p <= c => Chats(Without(q, q[p]), e)
<1> DEFINE a == SubSeq(q, 1, p - 1)
           b == SubSeq(q, p + 1, Len(q))
           w == Without(q, q[p])
           n == Len(q) - 1
<1>1. /\ q \in Seq(Deliveries) /\ Len(q) \in Nat /\ c \in 0..Len(q)
      /\ \A i \in 1..Len(q) : q[i] \in Deliveries
      /\ Distinct(q) /\ Prefix(q, c, D) /\ (c > 1 => Chats(q, c))
  BY DEF Queued, Prefix
<1>2. q[p] \in Elements(q) /\ Position(q, q[p]) = p
  <2>1. q[p] \in Elements(q) /\ q[p] \in Deliveries
    BY <1>1 DEF Elements
  <2>2. Position(q, q[p]) \in 1..Len(q) /\ q[Position(q, q[p])] = q[p]
    BY <1>1, <2>1, PositionInDomain
  <2> QED BY <1>1, <2>1, <2>2 DEF Distinct
<1>0. q \in Seq(Deliveries) /\ Len(q) \in Nat
  BY <1>1
<1>3. a \in Seq(Deliveries) /\ Len(a) = p - 1 /\ \A i \in 1..(p - 1) : a[i] = q[i]
  BY <1>0
<1>4. /\ b \in Seq(Deliveries) /\ Len(b) = Len(q) - p
      /\ \A i \in 1..(Len(q) - p) : b[i] = q[p + i]
  BY <1>0
<1>5. w = a \o b
  BY <1>2 DEF Without
<1> HIDE DEF a, b, w
<1>6. /\ w \in Seq(Deliveries) /\ Len(w) = n
      /\ \A i \in 1..n : w[i] = IF i < p THEN q[i] ELSE q[i + 1]
  <2>1. w \in Seq(Deliveries) /\ Len(w) = n
    <3>1. a \o b \in Seq(Deliveries) /\ Len(a \o b) = Len(a) + Len(b)
      BY <1>3, <1>4, ConcatIndex
    <3>2. Len(a) + Len(b) = n
      BY <1>1, <1>3, <1>4
    <3> QED BY <1>5, <3>1, <3>2
  <2>2. ASSUME NEW i \in 1..n, i < p PROVE w[i] = q[i]
    <3>1. i \in 1..(p - 1)
      BY <2>2
    <3> QED BY <1>3, <1>4, <1>5, <3>1, ConcatIndex
  <2>3. ASSUME NEW i \in 1..n, ~(i < p) PROVE w[i] = q[i + 1]
    <3>1. i - (p - 1) \in 1..(Len(q) - p) /\ p + (i - (p - 1)) = i + 1
      BY <1>1, <2>3
    <3>2. (a \o b)[Len(a) + (i - (p - 1))] = b[i - (p - 1)]
      BY <1>3, <1>4, <3>1, ConcatIndex
    <3>3. (p - 1) + (i - (p - 1)) = i
      BY <1>1, <2>3
    <3> QED BY <1>3, <1>4, <1>5, <3>1, <3>2, <3>3
  <2>4. ASSUME NEW i \in 1..n PROVE w[i] = IF i < p THEN q[i] ELSE q[i + 1]
    <3>1. CASE i < p
      BY <2>2, <3>1
    <3>2. CASE ~(i < p)
      BY <2>3, <3>2
    <3> QED BY <3>1, <3>2
  <2> QED BY <2>1, <2>4
<1>7. \A i \in 1..n : /\ (IF i < p THEN i ELSE i + 1) \in 1..Len(q)
                      /\ w[i] = q[IF i < p THEN i ELSE i + 1]
  <2> SUFFICES ASSUME NEW i \in 1..n
               PROVE  /\ (IF i < p THEN i ELSE i + 1) \in 1..Len(q)
                      /\ w[i] = q[IF i < p THEN i ELSE i + 1]
    OBVIOUS
  <2>1. CASE i < p
    BY <1>1, <1>6, <2>1
  <2>2. CASE ~(i < p)
    BY <1>1, <1>6, <2>2
  <2> QED BY <2>1, <2>2
<1>8. Distinct(w)
  <2> SUFFICES ASSUME NEW i \in 1..n, NEW j \in 1..n, w[i] = w[j] PROVE i = j
    BY <1>6 DEF Distinct
  <2>1. (IF i < p THEN i ELSE i + 1) = (IF j < p THEN j ELSE j + 1)
    BY <1>1, <1>7 DEF Distinct
  <2> QED BY <1>1, <2>1
<1>9. e \in 0..n
  BY <1>1
<1>10. Prefix(w, e, D)
  <2> SUFFICES ASSUME NEW i \in 1..n PROVE i > e <=> w[i] \in D
    BY <1>6, <1>9 DEF Prefix
  <2> DEFINE k == IF i < p THEN i ELSE i + 1
  <2>1. k \in 1..Len(q) /\ w[i] = q[k]
    BY <1>7
  <2>2. i > e <=> k > c
    BY <1>1
  <2> QED BY <1>1, <2>1, <2>2 DEF Prefix
<1>11. \A i \in 1..e : /\ (IF i < p THEN i ELSE i + 1) \in 1..c
                       /\ w[i] = q[IF i < p THEN i ELSE i + 1]
  BY <1>1, <1>7, <1>9
<1>12. p <= c => Chats(w, e)
  <2>1. ASSUME p <= c, NEW i \in 1..e PROVE w[i] \notin Scheduled
    <3>1. c > 1 /\ (IF i < p THEN i ELSE i + 1) \in 1..c
      BY <1>1, <1>11, <2>1
    <3> QED BY <1>1, <1>11, <3>1 DEF Chats
  <2> QED BY <2>1 DEF Chats
<1>13. e > 1 => Chats(w, e)
  <2>1. CASE p <= c
    BY <1>12, <2>1
  <2>2. CASE ~(p <= c)
    <3>1. ASSUME e > 1, NEW i \in 1..e PROVE w[i] \notin Scheduled
      BY <1>1, <1>11, <2>2, <3>1 DEF Chats
    <3> QED BY <3>1 DEF Chats
  <2> QED BY <2>1, <2>2
<1>14. \A i \in 1..Len(q) : i # p =>
          \E j \in 1..n : w[j] = q[i] /\ (i <= c => j \in 1..e)
  <2> SUFFICES ASSUME NEW i \in 1..Len(q), i # p
               PROVE  \E j \in 1..n : w[j] = q[i] /\ (i <= c => j \in 1..e)
    OBVIOUS
  <2> DEFINE j == IF i < p THEN i ELSE i - 1
  <2>1. j \in 1..n /\ (IF j < p THEN j ELSE j + 1) = i /\ (i <= c => j \in 1..e)
    BY <1>1
  <2>2. w[j] = q[i]
    BY <1>7, <2>1
  <2> QED BY <2>1, <2>2
<1>15. \A i \in 1..n : (IF i < p THEN i ELSE i + 1) # p
  BY <1>1
<1>16. Elements(w) = Elements(q) \ {q[p]}
  <2>1. DOMAIN w = 1..n /\ DOMAIN q = 1..Len(q)
    BY <1>1, <1>6
  <2>2. ASSUME NEW x \in Elements(w) PROVE x \in Elements(q) \ {q[p]}
    <3>1. PICK i \in 1..n : x = w[i]
      BY <2>1 DEF Elements
    <3>2. x \in Elements(q)
      BY <1>7, <2>1, <3>1 DEF Elements
    <3>3. x # q[p]
      BY <1>1, <1>7, <1>15, <3>1 DEF Distinct
    <3> QED BY <3>2, <3>3
  <2>3. ASSUME NEW x \in Elements(q) \ {q[p]} PROVE x \in Elements(w)
    <3>1. PICK i \in 1..Len(q) : x = q[i]
      BY <2>1 DEF Elements
    <3> QED BY <1>14, <2>1, <3>1 DEF Elements
  <2> QED BY <2>2, <2>3
<1>17. First(w, e) = First(q, c) \ {q[p]}
  <2>1. ASSUME NEW x \in First(w, e) PROVE x \in First(q, c) \ {q[p]}
    <3>1. PICK i \in 1..e : x = w[i]
      BY DEF First
    <3>2. x \in First(q, c)
      BY <1>11, <3>1 DEF First
    <3>3. i \in 1..n
      BY <1>9, <3>1
    <3>4. x # q[p]
      BY <1>1, <1>7, <1>15, <3>1, <3>3 DEF Distinct
    <3> QED BY <3>2, <3>4
  <2>2. ASSUME NEW x \in First(q, c) \ {q[p]} PROVE x \in First(w, e)
    <3>1. PICK i \in 1..c : x = q[i]
      BY DEF First
    <3>2. i \in 1..Len(q) /\ i # p /\ i <= c
      BY <1>1, <2>2, <3>1
    <3>3. PICK j \in 1..e : w[j] = q[i]
      BY <1>14, <3>2
    <3> QED BY <3>1, <3>3 DEF First
  <2> QED BY <2>1, <2>2
<1> QED BY <1>6, <1>8, <1>10, <1>12, <1>13, <1>16, <1>17 DEF Queued, w

-----------------------------------------------------------------------------
(* Promises and runs *)

(* Rejecting promises that are all awaited is a step of the contract. *)
LEMMA FailStep ==
    ASSUME NEW S \in SUBSET Deliveries, \A d \in S : status[d] = "pending",
           status \in [Deliveries -> Statuses],
           status' = Settle(S, "rejected"), processed' = processed
    PROVE  Contract!Next
<1>1. status' = Contract!Answer(S, "rejected")
  BY DEF Settle, Contract!Answer
<1>2. Contract!Fail(S)
  BY <1>1 DEF Contract!Fail, Contract!Pending
<1> QED BY <1>2 DEF Contract!Next

(* What stays queued when the promises of S are settled is still awaited. *)
LEMMA StillAnswerable ==
    ASSUME status \in [Deliveries -> Statuses], deferred \subseteq Deliveries, Answerable,
           NEW S, NEW outcome \in {"resolved", "rejected"}, status' = Settle(S, outcome),
           Elements(pendingDeliveries') \subseteq Deliveries,
           Elements(pendingDeliveries') \subseteq Elements(pendingDeliveries) \ S,
           deferred' \subseteq deferred
    PROVE  Answerable'
BY DEF Answerable, SettledLeaveQueue, Settle

(* Messages join one run. *)
LEMMA JoinedValue ==
    ASSUME NEW r \in Runs, NEW s \in Sessions, NEW S
    PROVE  /\ \A t \in Sessions : t # s => Joined(r, s, S)[t] = r[t]
           /\ \A m \in Messages :
                Joined(r, s, S)[s][m] = IF m \in S THEN r[s][m] + 1 ELSE r[s][m]
BY DEF Joined, Runs

(* An entry no run holds is sent, or its send is rejected. *)
LEMMA CarriesMore ==
    ASSUME NEW r \in Runs, NEW s \in Sessions, NEW rel, NEW fails, NEW S,
           NEW T \in SUBSET Deliveries, S \cap T = {}, NEW bad \in SUBSET T,
           Carries(r, rel, fails, s, S)
    PROVE  Carries(Joined(r, s, T \ bad), rel,
                   fails \cup [d : bad, on : {s}, release : {TRUE}], s, S \cup T)
<1> DEFINE u == Joined(r, s, T \ bad)
           more == fails \cup [d : bad, on : {s}, release : {TRUE}]
<1>1. \A d \in Deliveries : /\ u[s][d] = IF d \in T \ bad THEN r[s][d] + 1 ELSE r[s][d]
                            /\ r[s][d] \in Nat
  <2>1. \A d \in Deliveries : d \in Messages /\ r[s][d] \in Nat
    BY DEF Messages, Runs
  <2> QED BY <2>1, JoinedValue
<1>2. \A d \in Deliveries : Failing(more, s, d) <=> Failing(fails, s, d) \/ d \in bad
  BY DEF Failing
<1> HIDE DEF u, more
<1>3. ASSUME NEW d \in S, d \in Deliveries PROVE Sent(u, rel, more, s, d)
  <2>1. Sent(r, rel, fails, s, d) /\ d \notin T
    BY <1>3 DEF Carries
  <2>2. u[s][d] = r[s][d] /\ (Failing(more, s, d) <=> Failing(fails, s, d))
    BY <1>1, <1>2, <1>3, <2>1
  <2> QED BY <2>1, <2>2 DEF Sent
<1>4. ASSUME NEW d \in T PROVE Sent(u, rel, more, s, d)
  <2>1. Unsent(r, rel, fails, s, d)
    BY <1>4 DEF Carries
  <2> QED BY <1>1, <1>2, <2>1 DEF Sent, Unsent
<1>5. ASSUME NEW d \in Deliveries, d \notin S \cup T PROVE Unsent(u, rel, more, s, d)
  <2>1. Unsent(r, rel, fails, s, d) /\ d \notin T
    BY <1>5 DEF Carries
  <2> QED BY <1>1, <1>2, <2>1 DEF Unsent
<1>6. Carries(u, rel, more, s, S \cup T)
  BY <1>3, <1>4, <1>5 DEF Carries
<1> QED BY <1>6 DEF u, more

(* A replay sends what it counts: afterwards the entries in flight are again the first
   deliverySendCount ones, each sent once.                                          *)
LEMMA ReplayHealthy ==
    ASSUME NEW q, NEW c, NEW s \in Sessions, NEW r \in Runs, NEW out, NEW fails, NEW rel,
           Queued(q, c, deferred), c > 0 => Chats(q, c),
           Carries(r, rel, fails, s, First(q, c)), Release(fails),
           ReplayOn(s, r, q, c, out, fails)
    PROVE  /\ pendingDeliveries' = q
           /\ deferred' \subseteq deferred
           /\ Queued(q, deliverySendCount', deferred')
           /\ Carries(run', rel, failedSends', s, First(q, deliverySendCount'))
           /\ \A t \in Sessions : t # s => run'[t] = r[t]
           /\ Release(failedSends')
<1>1. /\ q \in Seq(Deliveries) /\ Len(q) \in Nat /\ c \in 0..Len(q)
      /\ \A i \in 1..Len(q) : q[i] \in Deliveries
      /\ Distinct(q) /\ Prefix(q, c, deferred)
  BY DEF Queued, Prefix
<1>2. PICK m \in c..Len(q) :
         /\ Dispatched(q, c) = (c + 1)..m
         /\ Cardinality(Dispatched(q, c)) = m - c
         /\ \A i \in (c + 1)..m : q[i] \in Scheduled => m = 1
  BY <1>1, DispatchedInterval
<1> DEFINE sent == {q[i] : i \in Dispatched(q, c)}
<1>3. PICK bad \in SUBSET sent :
         /\ failedSends' = fails \cup [d : bad, on : {s}, release : {TRUE}]
         /\ run' = Joined(r, s, sent \ bad)
  BY DEF ReplayOn
<1>4. pendingDeliveries' = q /\ deliverySendCount' = m /\ deferred' = deferred \ sent
  BY <1>1, <1>2 DEF ReplayOn
<1>5. sent = {q[i] : i \in (c + 1)..m} /\ sent \subseteq Deliveries
  BY <1>1, <1>2
<1> HIDE DEF sent
<1>6. First(q, c) \cap sent = {} /\ First(q, m) = First(q, c) \cup sent
  <2>1. \A i \in 1..c, j \in (c + 1)..m : q[i] # q[j]
    BY <1>1 DEF Distinct
  <2>2. \A i \in 1..m : i \in 1..c \/ i \in (c + 1)..m
    BY <1>1, <1>2
  <2>3. (\A i \in 1..c : i \in 1..m) /\ (\A i \in (c + 1)..m : i \in 1..m)
    BY <1>1, <1>2
  <2> QED BY <1>5, <2>1, <2>2, <2>3 DEF First
<1>7. Prefix(q, m, deferred \ sent)
  <2> SUFFICES ASSUME NEW i \in 1..Len(q) PROVE i > m <=> q[i] \in deferred \ sent
    BY <1>1, <1>2 DEF Prefix
  <2>1. q[i] \in sent <=> i \in (c + 1)..m
    <3>1. \A j \in (c + 1)..m : j \in 1..Len(q) /\ (q[i] = q[j] => i = j)
      BY <1>1, <1>2 DEF Distinct
    <3> QED BY <1>5, <3>1
  <2>2. q[i] \in deferred <=> i > c
    BY <1>1 DEF Prefix
  <2> QED BY <1>1, <1>2, <2>1, <2>2
<1>8. m > 1 => Chats(q, m)
  <2> SUFFICES ASSUME m > 1, NEW i \in 1..m PROVE q[i] \notin Scheduled
    BY DEF Chats
  <2>1. CASE i <= c
    <3>1. c > 0 /\ i \in 1..c
      BY <1>1, <2>1
    <3> QED BY <3>1 DEF Chats
  <2>2. CASE ~(i <= c)
    <3>1. i \in (c + 1)..m
      BY <1>1, <1>2, <2>2
    <3> QED BY <1>2, <3>1
  <2> QED BY <2>1, <2>2
<1>9. Queued(q, m, deferred \ sent)
  BY <1>1, <1>7, <1>8 DEF Queued
<1>10. Carries(run', rel, failedSends', s, First(q, m))
  <2>1. bad \in SUBSET sent /\ sent \in SUBSET Deliveries
    BY <1>5
  <2>2. Carries(Joined(r, s, sent \ bad), rel,
                fails \cup [d : bad, on : {s}, release : {TRUE}], s, First(q, c) \cup sent)
    BY <1>6, <2>1, CarriesMore
  <2> QED BY <1>3, <1>6, <2>2
<1>11. \A t \in Sessions : t # s => run'[t] = r[t]
  BY <1>3, JoinedValue
<1>12. Release(failedSends')
  BY <1>3 DEF Release
<1> QED BY <1>4, <1>9, <1>10, <1>11, <1>12

(* What the invariant says of the variables, in the terms of the actions. *)
LEMMA Basics ==
    ASSUME HInv
    PROVE  /\ status \in [Deliveries -> Statuses] /\ run \in Runs /\ failedSends \in SUBSET Sends
           /\ pendingDeliveries \in Seq(Deliveries) /\ Len(pendingDeliveries) \in Nat
           /\ deliverySendCount \in 0..Len(pendingDeliveries)
           /\ InFlight = First(pendingDeliveries, deliverySendCount)
           /\ Smaller(deliverySendCount, Len(pendingDeliveries)) = deliverySendCount
           /\ InFlight \subseteq Elements(pendingDeliveries)
           /\ Elements(pendingDeliveries) \subseteq Deliveries /\ deferred \subseteq Deliveries
           /\ \A d \in Elements(pendingDeliveries) : status[d] = "pending"
           /\ session \in Sessions \cup {0} /\ 0 \notin Sessions
           /\ reloading \subseteq [d : Deliveries, on : Sessions]
<1>1. /\ status \in [Deliveries -> Statuses] /\ run \in Runs /\ failedSends \in SUBSET Sends
      /\ pendingDeliveries \in Seq(Deliveries) /\ Len(pendingDeliveries) \in Nat
      /\ deferred \subseteq Deliveries /\ session \in Sessions \cup {0}
      /\ reloading \subseteq [d : Deliveries, on : Sessions]
  BY DEF HInv, IInv, TypeOK, Statuses, Runs, Sends
<1>2. Queued(pendingDeliveries, deliverySendCount, deferred)
  BY DEF HInv, Kept, WellQueued
<1>3. deliverySendCount \in 0..Len(pendingDeliveries)
  BY <1>2 DEF Queued, Prefix
<1>4. Smaller(deliverySendCount, Len(pendingDeliveries)) = deliverySendCount
  BY <1>1, <1>3 DEF Smaller
<1>5. InFlight = First(pendingDeliveries, deliverySendCount)
  BY <1>4 DEF InFlight, First
<1>6. /\ InFlight \subseteq Elements(pendingDeliveries)
      /\ Elements(pendingDeliveries) \subseteq Deliveries
  BY <1>2, <1>5, FirstQueued
<1>7. \A d \in Elements(pendingDeliveries) : status[d] = "pending"
  BY DEF HInv, Kept, Answerable, SettledLeaveQueue
<1>8. 0 \notin Sessions
  BY ConstantsAssumption
<1> QED BY <1>1, <1>3, <1>4, <1>5, <1>6, <1>7, <1>8

(* Steps that touch neither the queue nor the sends keep the invariant. *)
LEMMA NothingMoves ==
    ASSUME HInv,
           UNCHANGED <<status, pendingDeliveries, deliverySendCount, deferred, sessionVars,
                       sendVars, run, processed>>
    PROVE  Kept' /\ ContractStep
<1>1. Kept'
  BY DEF HInv, Kept, Answerable, SettledLeaveQueue, WellQueued, Attached, OnTheWay, sessionVars,
         sendVars
<1> QED BY <1>1 DEF ContractStep

-----------------------------------------------------------------------------
(* Deliveries and prompts *)

\* d is sent right behind the entries in flight.
Grown(q, c, D, d) ==
    /\ Queued(Append(q, d), c + 1, D)
    /\ First(Append(q, d), c + 1) = First(q, c) \cup {d}

(* A new entry goes to the end, deferred, or in flight if all others are. *)
LEMMA AppendQueued ==
    ASSUME NEW q, NEW c, NEW D, Queued(q, c, D), NEW d \in Deliveries, d \notin Elements(q)
    PROVE  /\ Elements(Append(q, d)) = Elements(q) \cup {d}
           /\ Queued(Append(q, d), c, D \cup {d})
           /\ First(Append(q, d), c) = First(q, c)
           /\ c = Len(q) /\ d \notin D /\ Chats(q, c) /\ (c = 0 \/ d \notin Scheduled)
                => Grown(q, c, D, d)
<1> DEFINE w == Append(q, d)
           n == Len(q)
<1>1. /\ q \in Seq(Deliveries) /\ n \in Nat /\ c \in 0..n
      /\ \A i \in 1..n : q[i] \in Deliveries
      /\ Distinct(q) /\ Prefix(q, c, D) /\ (c > 1 => Chats(q, c))
  BY DEF Queued, Prefix
<1>2. /\ w \in Seq(Deliveries) /\ Len(w) = n + 1 /\ w[n + 1] = d
      /\ \A i \in 1..n : w[i] = q[i] /\ q[i] # d
  <2>1. \A i \in 1..n : q[i] \in Elements(q)
    BY <1>1 DEF Elements
  <2> QED BY <1>1, <2>1
<1> HIDE DEF w
<1>3. \A i \in 1..(n + 1) : i \in 1..n \/ i = n + 1
  BY <1>1
<1>4. Elements(w) = Elements(q) \cup {d}
  <2>1. DOMAIN w = 1..(n + 1) /\ DOMAIN q = 1..n
    BY <1>1, <1>2
  <2>2. /\ \A i \in 1..n : i \in 1..(n + 1)
        /\ n + 1 \in 1..(n + 1)
    BY <1>1
  <2>3. ASSUME NEW x \in Elements(w) PROVE x \in Elements(q) \cup {d}
    BY <1>2, <1>3, <2>1 DEF Elements
  <2>4. ASSUME NEW x \in Elements(q) \cup {d} PROVE x \in Elements(w)
    BY <1>2, <2>1, <2>2 DEF Elements
  <2> QED BY <2>3, <2>4
<1>5. Distinct(w)
  <2> SUFFICES ASSUME NEW i \in 1..(n + 1), NEW j \in 1..(n + 1), w[i] = w[j] PROVE i = j
    BY <1>2 DEF Distinct
  <2> QED BY <1>1, <1>2, <1>3 DEF Distinct
<1>6. Prefix(w, c, D \cup {d})
  <2> SUFFICES ASSUME NEW i \in 1..(n + 1) PROVE i > c <=> w[i] \in D \cup {d}
    BY <1>1, <1>2 DEF Prefix
  <2>1. CASE i \in 1..n
    BY <1>1, <1>2, <2>1 DEF Prefix
  <2>2. CASE i = n + 1
    BY <1>1, <1>2, <2>2
  <2> QED BY <1>3, <2>1, <2>2
<1>7. \A i \in 1..c : i \in 1..n /\ w[i] = q[i]
  BY <1>1, <1>2
<1>8. First(w, c) = First(q, c) /\ (Chats(q, c) <=> Chats(w, c))
  BY <1>7 DEF First, Chats
<1>9. Queued(w, c, D \cup {d})
  BY <1>1, <1>2, <1>5, <1>6, <1>8 DEF Queued
<1>10. ASSUME c = n, d \notin D, Chats(q, c), c = 0 \/ d \notin Scheduled
       PROVE  Queued(w, c + 1, D) /\ First(w, c + 1) = First(q, c) \cup {d}
  <2>1. Prefix(w, c + 1, D)
    <3> SUFFICES ASSUME NEW i \in 1..(n + 1) PROVE i > c + 1 <=> w[i] \in D
      BY <1>1, <1>2, <1>10 DEF Prefix
    <3>1. CASE i \in 1..n
      BY <1>1, <1>2, <1>10, <3>1 DEF Prefix
    <3>2. CASE i = n + 1
      BY <1>1, <1>2, <1>10, <3>2
    <3> QED BY <1>3, <3>1, <3>2
  <2>2. c + 1 > 1 => Chats(w, c + 1)
    <3> SUFFICES ASSUME c + 1 > 1, NEW i \in 1..(c + 1) PROVE w[i] \notin Scheduled
      BY DEF Chats
    <3>1. c > 0
      BY <1>1
    <3>2. CASE i \in 1..n
      BY <1>2, <1>10, <3>1, <3>2 DEF Chats
    <3>3. CASE i = n + 1
      BY <1>2, <1>10, <3>1, <3>3
    <3> QED BY <1>3, <1>10, <3>2, <3>3
  <2>3. First(w, c + 1) = First(q, c) \cup {d}
    <3>1. \A i \in 1..(c + 1) : (i \in 1..c /\ w[i] = q[i]) \/ w[i] = d
      BY <1>2, <1>3, <1>10
    <3>2. /\ \A i \in 1..c : i \in 1..(c + 1) /\ w[i] = q[i]
          /\ c + 1 \in 1..(c + 1) /\ w[c + 1] = d
      BY <1>1, <1>2, <1>10
    <3> QED BY <3>1, <3>2 DEF First
  <2> QED BY <1>2, <1>5, <2>1, <2>2, <2>3 DEF Queued
<1> QED BY <1>4, <1>8, <1>9, <1>10 DEF w, Grown

(* deliverMessage refuses: the delivery was never queued. *)
LEMMA RefuseHealthy ==
    ASSUME HInv, NEW d \in Deliveries, DeliverRejected(d)
    PROVE  Kept' /\ ContractStep
<1>1. /\ status[d] = "new" /\ status' = [status EXCEPT ![d] = "rejected"]
      /\ UNCHANGED <<pendingDeliveries, deliverySendCount, deferred, sessionVars, sendVars, run,
                     processed>>
  BY DEF DeliverRejected
<1>2. Answerable'
  BY <1>1, Basics DEF HInv, Kept, Answerable, SettledLeaveQueue
<1>3. Kept'
  BY <1>1, <1>2 DEF HInv, Kept, WellQueued, Attached, OnTheWay, sessionVars, sendVars
<1>4. Contract!Refuse(d)
  BY <1>1, Basics DEF Contract!Refuse, Contract!Answer
<1> QED BY <1>3, <1>4 DEF ContractStep, Contract!Next

(* deliverMessage queues the delivery, and sends it where the gate lets it pass. *)
LEMMA AcceptHealthy ==
    ASSUME HInv, NEW d \in Deliveries, DeliverMessage(d)
    PROVE  Kept' /\ ContractStep
<1>1. /\ status[d] = "new" /\ status' = [status EXCEPT ![d] = "pending"]
      /\ pendingDeliveries' = Append(pendingDeliveries, d)
      /\ UNCHANGED <<sessionVars, failedSends, run, processed>>
  BY DEF DeliverMessage
<1>2. d \notin Elements(pendingDeliveries) /\ d \notin deferred
  BY <1>1, Basics DEF HInv, Kept, Answerable
<1>3. Queued(pendingDeliveries, deliverySendCount, deferred)
  BY DEF HInv, Kept, WellQueued
<1>4. /\ Elements(Append(pendingDeliveries, d)) = Elements(pendingDeliveries) \cup {d}
      /\ Queued(Append(pendingDeliveries, d), deliverySendCount, deferred \cup {d})
      /\ First(Append(pendingDeliveries, d), deliverySendCount)
           = First(pendingDeliveries, deliverySendCount)
  BY <1>2, <1>3, AppendQueued
<1>5. deferred' \subseteq deferred \cup {d}
  BY DEF DeliverMessage
<1>6. Answerable'
  BY <1>1, <1>4, <1>5, Basics DEF HInv, Kept, Answerable, SettledLeaveQueue
<1>7. Contract!Accept(d)
  BY <1>1, Basics DEF Contract!Accept, Contract!Answer
<1>8. Attached' /\ Elsewhere(run', session') /\ Release(failedSends')
  <2>1. session = 0 => Gated(d)
    BY DEF Gated
  <2>2. session = 0 => deliverySendCount' = deliverySendCount
    BY <2>1 DEF DeliverMessage
  <2> QED BY <1>1, <2>2 DEF HInv, Kept, Attached, sessionVars
<1>9. WellQueued' /\ OnTheWay'
  <2>1. CASE Gated(d)
    <3>1. /\ deferred' = deferred \cup {d}
          /\ UNCHANGED <<deliverySendCount, reloading>>
      BY <2>1 DEF DeliverMessage
    <3>2. OnTheWay'
      BY <1>1, <1>4, <3>1 DEF HInv, Kept, OnTheWay, sessionVars
    <3> QED BY <1>1, <1>4, <3>1, <3>2 DEF WellQueued
  <2>2. CASE ~Gated(d)
    <3>1. /\ deliverySendCount' = deliverySendCount + 1
          /\ reloading' = reloading \cup {[d |-> d, on |-> session]}
          /\ deferred' = deferred
      BY <2>2 DEF DeliverMessage
    <3>2. /\ session # 0 /\ ~(d \in Scheduled /\ deliverySendCount > 0)
          /\ InFlight \cap Scheduled = {}
          /\ deliverySendCount = Len(pendingDeliveries)
      BY <2>2, Basics DEF Gated
    <3>3. Chats(pendingDeliveries, deliverySendCount)
      BY <3>2, Basics DEF Chats, First
    <3>4. /\ Queued(Append(pendingDeliveries, d), deliverySendCount + 1, deferred)
          /\ First(Append(pendingDeliveries, d), deliverySendCount + 1) = InFlight \cup {d}
      <4>1. deliverySendCount = 0 \/ d \notin Scheduled
        BY <3>2, Basics
      <4>2. Grown(pendingDeliveries, deliverySendCount, deferred, d)
        BY <1>2, <1>3, <3>2, <3>3, <4>1, AppendQueued
      <4> QED BY <4>2, Basics DEF Grown
    <3>5. Carries(run, reloading, failedSends, session, InFlight) /\ d \notin InFlight
      BY <1>2, <3>2, Basics DEF HInv, Kept, OnTheWay
    <3>6. \A e \in Deliveries :
             Loading(reloading', session, e) <=> Loading(reloading, session, e) \/ e = d
      BY <3>1 DEF Loading
    <3>7. Carries(run, reloading', failedSends, session, InFlight \cup {d})
      <4>1. Unsent(run, reloading, failedSends, session, d)
        BY <3>5 DEF Carries
      <4>2. Sent(run, reloading', failedSends, session, d)
        BY <3>6, <4>1 DEF Unsent, Sent
      <4>3. ASSUME NEW e \in Deliveries, e # d
            PROVE  /\ e \in InFlight => Sent(run, reloading', failedSends, session, e)
                   /\ e \notin InFlight => Unsent(run, reloading', failedSends, session, e)
        BY <3>5, <3>6, <4>3 DEF Carries, Unsent, Sent
      <4> QED BY <4>2, <4>3 DEF Carries
    <3>8. OnTheWay'
      BY <1>1, <3>1, <3>4, <3>7 DEF OnTheWay, sessionVars
    <3> QED BY <1>1, <3>1, <3>4, <3>8 DEF WellQueued
  <2> QED BY <2>1, <2>2
<1> QED BY <1>6, <1>7, <1>8, <1>9 DEF Kept, ContractStep, Contract!Next

(* The catch of a send drops its entry and sends what that lets pass. *)
LEMMA SendCatchHealthy ==
    ASSUME HInv, NEW d \in Deliveries, NEW s \in Sessions, NEW rel, NEW fails, Release(fails),
           NEW out \in {{d}, {d} \cap Elements(pendingDeliveries)},
           SendCatch(d, s, out, TRUE, fails), reloading' = rel, UNCHANGED <<sessionVars, processed>>,
           session = s => d \in InFlight /\ Carries(run, rel, fails, s, InFlight \ {d}),
           session # s /\ session # 0 => Carries(run, rel, fails, session, InFlight)
    PROVE  Kept' /\ ContractStep
<1>1. CASE session # s
  <2>1. failedSends' = fails /\ UNCHANGED <<queueVars, run>>
    BY <1>1 DEF SendCatch
  <2>2. OnTheWay'
    BY <1>1, <2>1, Basics DEF OnTheWay, sessionVars, queueVars
  <2>3. Kept'
    BY <2>1, <2>2
       DEF HInv, Kept, Answerable, SettledLeaveQueue, WellQueued, Attached, sessionVars, queueVars
  <2> QED BY <2>1, <2>3 DEF ContractStep, queueVars
<1>2. CASE session = s
  <2> DEFINE q == Without(pendingDeliveries, d)
             c == Decrement(deliverySendCount)
  <2>1. /\ d \in Elements(pendingDeliveries) /\ out = {d}
        /\ status' = Settle({d}, "rejected")
        /\ \/ ReplayOn(s, run, q, c, out, fails)
           \/ NoReplay(q, c, out, fails) /\ run' = run
    BY <1>2, Basics DEF SendCatch
  <2>2. PICK p \in 1..deliverySendCount : d = pendingDeliveries[p]
    BY <1>2, Basics DEF First
  <2>3. /\ Queued(q, c, deferred) /\ Chats(q, c)
        /\ Elements(q) = Elements(pendingDeliveries) \ {d}
        /\ First(q, c) = InFlight \ {d}
    <3>1. /\ p \in 1..Len(pendingDeliveries) /\ p <= deliverySendCount
          /\ c = IF p <= deliverySendCount THEN deliverySendCount - 1 ELSE deliverySendCount
      BY <2>2, Basics DEF Decrement
    <3>2. Queued(pendingDeliveries, deliverySendCount, deferred)
      BY DEF HInv, Kept, WellQueued
    <3> HIDE DEF c
    <3> QED BY <2>2, <3>1, <3>2, Basics, WithoutQueued
  <2> HIDE DEF q, c
  <2>4. /\ pendingDeliveries' = q /\ deferred' \subseteq deferred
        /\ Queued(q, deliverySendCount', deferred')
        /\ Carries(run', rel, failedSends', s, First(q, deliverySendCount'))
        /\ \A t \in Sessions : t # s => run'[t] = run[t]
        /\ Release(failedSends')
    <3>1. Carries(run, rel, fails, s, First(q, c))
      BY <1>2, <2>3
    <3>2. CASE ReplayOn(s, run, q, c, out, fails)
      <4>1. run \in Runs
        BY Basics
      <4> QED BY <2>3, <3>1, <3>2, <4>1, ReplayHealthy
    <3>3. CASE NoReplay(q, c, out, fails) /\ run' = run
      BY <2>3, <3>1, <3>3 DEF NoReplay
    <3> QED BY <2>1, <3>2, <3>3
  <2>5. Answerable'
    <3>1. deferred \subseteq Deliveries /\ Answerable
      BY Basics DEF HInv, Kept
    <3> QED BY <2>1, <2>3, <2>4, <3>1, Basics, StillAnswerable
  <2>6. Elsewhere(run', session')
    BY <1>2, <2>4 DEF HInv, Kept, Elsewhere, sessionVars
  <2>7. Attached'
    BY <1>2, Basics DEF HInv, Kept, Attached, sessionVars
  <2>8. WellQueued' /\ OnTheWay'
    BY <1>2, <2>4 DEF WellQueued, OnTheWay, sessionVars
  <2>9. Contract!Next
    BY <2>1, Basics, FailStep
  <2> QED BY <2>4, <2>5, <2>6, <2>7, <2>8, <2>9 DEF Kept, ContractStep
<1> QED BY <1>1, <1>2

(* A first send joins the run of the session it was made on, or is rejected. *)
LEMMA ReloadHealthy ==
    ASSUME HInv, NEW r \in reloading, ReloadEnds(r)
    PROVE  Kept' /\ ContractStep
<1>1. /\ r.d \in Deliveries /\ r.on \in Sessions /\ r = [d |-> r.d, on |-> r.on]
      /\ reloading' = reloading \ {r} /\ UNCHANGED <<sessionVars, processed>>
  BY Basics DEF ReloadEnds
<1> DEFINE rel == reloading \ {r}
<1>2. /\ \A e \in Deliveries, t \in Sessions : e # r.d \/ t # r.on =>
            (Loading(rel, t, e) <=> Loading(reloading, t, e))
      /\ ~Loading(rel, r.on, r.d) /\ Loading(reloading, r.on, r.d)
  BY <1>1 DEF Loading
<1> HIDE DEF rel
<1>3. session # 0 => Carries(run, reloading, failedSends, session, InFlight)
  BY Basics DEF HInv, Kept, OnTheWay
<1>4. session # r.on /\ session # 0 => Carries(run, rel, failedSends, session, InFlight)
  BY <1>2, <1>3, Basics DEF Carries, Sent, Unsent
<1>5. session = r.on => r.d \in InFlight /\ Carries(run, rel, failedSends, session, InFlight \ {r.d})
  <2> SUFFICES ASSUME session = r.on
               PROVE  r.d \in InFlight /\ Carries(run, rel, failedSends, session, InFlight \ {r.d})
    OBVIOUS
  <2>1. Carries(run, reloading, failedSends, session, InFlight)
    BY <1>1, <1>3, Basics
  <2>2. r.d \in InFlight /\ Sent(run, reloading, failedSends, session, r.d)
    BY <1>1, <1>2, <2>1 DEF Carries, Unsent
  <2>3. Unsent(run, rel, failedSends, session, r.d)
    BY <1>2, <2>2 DEF Sent, Unsent
  <2>4. ASSUME NEW e \in Deliveries, e # r.d
        PROVE  /\ e \in InFlight => Sent(run, rel, failedSends, session, e)
               /\ e \notin InFlight => Unsent(run, rel, failedSends, session, e)
    BY <1>1, <1>2, <2>1, <2>4 DEF Carries, Sent, Unsent
  <2> QED BY <2>2, <2>3, <2>4 DEF Carries
<1>6. CASE SendCatch(r.d, r.on, {r.d} \cap Elements(pendingDeliveries), TRUE, failedSends)
  <2>1. Release(failedSends)
    BY DEF HInv, Kept
  <2> QED BY <1>1, <1>4, <1>5, <1>6, <2>1, SendCatchHealthy DEF rel
<1>7. CASE UNCHANGED <<queueVars, failedSends>>
           /\ run' = IF r.on \in subscribed \cup {session} THEN Joined(run, r.on, {r.d}) ELSE run
  <2>1. CASE session = r.on
    <3>1. run' = Joined(run, r.on, {r.d})
      BY <1>7, <2>1
    <3>2. /\ \A t \in Sessions : t # r.on => run'[t] = run[t]
          /\ \A e \in Deliveries :
               run'[r.on][e] = IF e = r.d THEN run[r.on][e] + 1 ELSE run[r.on][e]
      BY <1>1, <3>1, Basics, JoinedValue DEF Messages
    <3>3. Carries(run', rel, failedSends, session, InFlight)
      <4>1. /\ r.d \in InFlight /\ Unsent(run, rel, failedSends, session, r.d)
            /\ \A e \in Deliveries : e # r.d =>
                 /\ e \in InFlight => Sent(run, rel, failedSends, session, e)
                 /\ e \notin InFlight => Unsent(run, rel, failedSends, session, e)
        BY <1>1, <1>5, <2>1 DEF Carries
      <4>2. Sent(run', rel, failedSends, session, r.d)
        BY <1>1, <2>1, <3>2, <4>1 DEF Sent, Unsent
      <4>3. ASSUME NEW e \in Deliveries, e # r.d
            PROVE  /\ e \in InFlight => Sent(run', rel, failedSends, session, e)
                   /\ e \notin InFlight => Unsent(run', rel, failedSends, session, e)
        BY <2>1, <3>2, <4>1, <4>3 DEF Sent, Unsent
      <4> QED BY <4>1, <4>2, <4>3 DEF Carries
    <3>4. OnTheWay'
      BY <1>1, <1>7, <3>3, Basics DEF OnTheWay, rel, queueVars, sessionVars
    <3>5. Elsewhere(run', session')
      BY <1>1, <2>1, <3>2 DEF HInv, Kept, Elsewhere, sessionVars
    <3> QED BY <1>1, <1>7, <3>4, <3>5
         DEF HInv, Kept, ContractStep, Answerable, SettledLeaveQueue, WellQueued, Attached,
             queueVars, sessionVars
  <2>2. CASE session # r.on
    <3>1. r.on \notin subscribed \cup {session}
      BY <2>2 DEF HInv, Kept, Attached
    <3>2. run' = run
      BY <1>7, <3>1
    <3>3. OnTheWay'
      BY <1>1, <1>4, <1>7, <2>2, <3>2, Basics DEF OnTheWay, rel, queueVars, sessionVars
    <3> QED BY <1>1, <1>7, <3>2, <3>3
         DEF HInv, Kept, ContractStep, Answerable, SettledLeaveQueue, WellQueued, Attached,
             queueVars, sessionVars
  <2> QED BY <2>1, <2>2
<1> QED BY <1>6, <1>7 DEF ReloadEnds

(* A rejected send of a replay is caught. *)
LEMMA SendFailsHealthy ==
    ASSUME HInv, NEW f \in failedSends, SendFails(f)
    PROVE  Kept' /\ ContractStep
<1>1. /\ f.d \in Deliveries /\ f.on \in Sessions /\ f.release = TRUE
      /\ f = [d |-> f.d, on |-> f.on, release |-> TRUE]
  <2>1. f.release = TRUE
    BY Basics DEF HInv, Kept, Release, Sends
  <2>2. f \in Sends
    BY Basics
  <2> QED BY <2>1, <2>2 DEF Sends
<1>2. /\ SendCatch(f.d, f.on, {f.d}, TRUE, failedSends \ {f})
      /\ reloading' = reloading /\ UNCHANGED <<sessionVars, processed>>
  BY <1>1 DEF SendFails
<1> DEFINE fails == failedSends \ {f}
<1>3. /\ \A e \in Deliveries, t \in Sessions : e # f.d \/ t # f.on =>
            (Failing(fails, t, e) <=> Failing(failedSends, t, e))
      /\ ~Failing(fails, f.on, f.d) /\ Failing(failedSends, f.on, f.d)
  <2>1. Failing(failedSends, f.on, f.d) /\ ~Failing(fails, f.on, f.d)
    BY <1>1 DEF Failing
  <2>2. ASSUME NEW e \in Deliveries, NEW t \in Sessions, e # f.d \/ t # f.on
        PROVE  Failing(fails, t, e) <=> Failing(failedSends, t, e)
    <3>1. [d |-> e, on |-> t, release |-> TRUE] # f
      BY <2>2
    <3> QED BY <3>1 DEF Failing
  <2> QED BY <2>1, <2>2
<1>4. Release(fails)
  BY DEF HInv, Kept, Release
<1> HIDE DEF fails
<1>5. session # 0 => Carries(run, reloading, failedSends, session, InFlight)
  BY Basics DEF HInv, Kept, OnTheWay
<1>6. session # f.on /\ session # 0 => Carries(run, reloading, fails, session, InFlight)
  BY <1>3, <1>5, Basics DEF Carries, Sent, Unsent
<1>7. session = f.on => f.d \in InFlight /\ Carries(run, reloading, fails, session, InFlight \ {f.d})
  <2> SUFFICES ASSUME session = f.on
               PROVE  f.d \in InFlight /\ Carries(run, reloading, fails, session, InFlight \ {f.d})
    OBVIOUS
  <2>1. Carries(run, reloading, failedSends, session, InFlight)
    BY <1>1, <1>5, Basics
  <2>2. f.d \in InFlight /\ Sent(run, reloading, failedSends, session, f.d)
    BY <1>1, <1>3, <2>1 DEF Carries, Unsent
  <2>3. Unsent(run, reloading, fails, session, f.d)
    BY <1>3, <2>2 DEF Sent, Unsent
  <2>4. ASSUME NEW e \in Deliveries, e # f.d
        PROVE  /\ e \in InFlight => Sent(run, reloading, fails, session, e)
               /\ e \notin InFlight => Unsent(run, reloading, fails, session, e)
    BY <1>1, <1>3, <2>1, <2>4 DEF Carries, Sent, Unsent
  <2> QED BY <2>2, <2>3, <2>4 DEF Carries
<1> QED BY <1>1, <1>2, <1>4, <1>6, <1>7, SendCatchHealthy DEF fails

(* A user prompt is no delivery. *)
LEMMA PromptHealthy ==
    ASSUME HInv, UserPrompt \/ PromptReloadEnds
    PROVE  Kept' /\ ContractStep
<1>1. CASE UserPrompt
  BY <1>1, NothingMoves DEF UserPrompt, queueVars
<1>2. CASE PromptReloadEnds
  <2>1. UNCHANGED <<queueVars, sessionVars, sendVars, processed>>
    BY <1>2 DEF PromptReloadEnds
  <2>2. /\ session = 0 => run' = run
        /\ session # 0 => run' = Joined(run, session, {Prompt})
    BY <1>2 DEF PromptReloadEnds
  <2>3. /\ \A t \in Sessions : t # session => run'[t] = run[t]
        /\ session # 0 => \A d \in Deliveries : run'[session][d] = run[session][d]
    <3>1. CASE session = 0
      BY <2>2, <3>1
    <3>2. CASE session # 0
      <4>1. session \in Sessions /\ run \in Runs /\ run' = Joined(run, session, {Prompt})
        BY <2>2, <3>2, Basics
      <4>2. \A d \in Deliveries : d \in Messages /\ d \notin {Prompt}
        BY ConstantsAssumption DEF Messages
      <4> QED BY <4>1, <4>2, JoinedValue
    <3> QED BY <3>1, <3>2
  <2>4. OnTheWay'
    BY <2>1, <2>3 DEF HInv, Kept, OnTheWay, Carries, Sent, Unsent, queueVars, sessionVars, sendVars
  <2>5. Elsewhere(run', session')
    BY <2>1, <2>3 DEF HInv, Kept, Elsewhere, sessionVars
  <2> QED BY <2>1, <2>4, <2>5
       DEF HInv, Kept, ContractStep, Answerable, SettledLeaveQueue, WellQueued, Attached,
           queueVars, sessionVars, sendVars
<1> QED BY <1>1, <1>2

(* Rejecting the whole queue answers everyone in it. *)
LEMMA RejectedAll ==
    ASSUME HInv, RejectAll, deliverySendCount' = 0, processed' = processed
    PROVE  /\ Answerable' /\ WellQueued' /\ Contract!Next
           /\ First(pendingDeliveries', deliverySendCount') = {}
<1>1. /\ status' = Settle(Elements(pendingDeliveries), "rejected")
      /\ pendingDeliveries' = <<>> /\ deferred' = deferred
  BY DEF RejectAll
<1>2. Elements(<<>>) = {}
  BY DEF Elements
<1>3. Answerable'
  <2>1. Answerable
    BY DEF HInv, Kept
  <2> QED BY <1>1, <1>2, <2>1, Basics, StillAnswerable
<1>4. Queued(<<>>, 0, deferred)
  BY DEF Queued, Distinct, Prefix
<1>5. Contract!Next
  BY <1>1, Basics, FailStep
<1> QED BY <1>1, <1>3, <1>4, <1>5, FirstNone DEF WellQueued

(* Without slow sends an SDK event finds every send of the current session in its run. *)
LEMMA AllSent ==
    ASSUME Healthy, HInv, SendsSettled, session # 0
    PROVE  /\ reloading = {} /\ failedSends = {}
           /\ \A d \in Deliveries : run[session][d] = IF d \in InFlight THEN 1 ELSE 0
<1>1. reloading = {} /\ failedSends = {}
  BY DEF Healthy, SendsSettled
<1>2. Carries(run, reloading, failedSends, session, InFlight)
  BY Basics DEF HInv, Kept, OnTheWay
<1> QED BY <1>1, <1>2 DEF Carries, Sent, Unsent, Loading, Failing

(* No send, no delivery: a session whose run holds none carries none. *)
LEMMA CarriesNothing ==
    ASSUME NEW r, NEW rel, NEW fails, NEW s,
           \A d \in Deliveries : r[s][d] = 0,
           \A l \in rel : l.on # s, \A f \in fails : f.on # s
    PROVE  Carries(r, rel, fails, s, {})
BY DEF Carries, Unsent, Loading, Failing

(* abort() rejects the queue and stops the run that held it. *)
LEMMA AbortHealthy ==
    ASSUME Healthy, HInv, Abort
    PROVE  Kept' /\ ContractStep
<1>1. /\ session # 0 /\ SendsSettled /\ RejectAll /\ deliverySendCount' = 0
      /\ UNCHANGED <<sessionVars, sendVars, processed>>
  BY DEF Abort
<1>2. reloading = {} /\ failedSends = {}
  BY <1>1, AllSent
<1>3. /\ \A t \in Sessions : t # session => run'[t] = run[t]
      /\ \A d \in Deliveries : run'[session][d] = 0
  BY <1>1, Basics, ConstantsAssumption DEF Abort, NoRun, Runs, Messages
<1>4. Carries(run', reloading', failedSends', session', {})
  BY <1>1, <1>2, <1>3, CarriesNothing DEF sessionVars, sendVars
<1>5. OnTheWay'
  BY <1>1, <1>4, RejectedAll DEF OnTheWay
<1>6. Elsewhere(run', session')
  BY <1>1, <1>3 DEF HInv, Kept, Elsewhere, sessionVars
<1>7. Attached' /\ Release(failedSends')
  BY <1>1 DEF HInv, Kept, Attached, sessionVars, sendVars
<1> QED BY <1>1, <1>5, <1>6, <1>7, RejectedAll DEF Kept, ContractStep

-----------------------------------------------------------------------------
(* Watchdogs *)

(* A watchdog that outlasts whatever is under way finds nothing in flight. *)
LEMMA Quiet ==
    ASSUME Healthy, HInv, "lostStream" \in Env \/ ~Underway
    PROVE  deliverySendCount = 0 /\ InFlight = {} /\ reloading = {} /\ failedSends = {}
<1>1. ~isReinitializing /\ reloading = {} /\ failedSends = {} /\ \A s \in subscribed : run[s] = NoRun
  BY DEF Healthy, Underway, Running
<1>2. CASE session = 0
  BY <1>1, <1>2, Basics, FirstNone DEF HInv, Kept, Attached
<1>3. CASE session # 0
  <2>1. \A d \in Deliveries : run[session][d] = 0
    BY <1>1, <1>3 DEF HInv, Kept, Attached, NoRun, Messages
  <2>2. Carries(run, reloading, failedSends, session, InFlight)
    BY <1>3, Basics DEF HInv, Kept, OnTheWay
  <2>3. InFlight = {}
    BY <1>1, <2>1, <2>2, Basics DEF Carries, Sent, Loading, Failing
  <2>4. deliverySendCount = 0
    <3>1. deliverySendCount > 0 => pendingDeliveries[1] \in InFlight
      BY Basics DEF First
    <3> QED BY <2>3, <3>1, Basics
  <2> QED BY <1>1, <2>3, <2>4
<1> QED BY <1>2, <1>3

(* An entry is dropped from a queue with nothing in flight. *)
LEMMA DroppedQueued ==
    ASSUME HInv, deliverySendCount = 0, NEW d \in Elements(pendingDeliveries)
    PROVE  /\ Queued(Without(pendingDeliveries, d), 0, deferred)
           /\ Elements(Without(pendingDeliveries, d)) = Elements(pendingDeliveries) \ {d}
<1>1. Queued(pendingDeliveries, 0, deferred)
  BY DEF HInv, Kept, WellQueued
<1>2. PICK p \in 1..Len(pendingDeliveries) : d = pendingDeliveries[p]
  BY Basics DEF Elements
<1>3. 0 = IF p <= 0 THEN 0 - 1 ELSE 0
  BY <1>2
<1> QED BY <1>1, <1>2, <1>3, WithoutQueued

(* An entry that stayed deferred too long is dropped and rejected. *)
LEMMA DeferTimeoutHealthy ==
    ASSUME Healthy, HInv, NEW d \in Deliveries, DeferTimeout(d)
    PROVE  Kept' /\ ContractStep
<1>1. UNCHANGED <<deliverySendCount, deferred, sessionVars, sendVars, run, processed>>
  BY DEF DeferTimeout
<1>2. deliverySendCount = 0 /\ InFlight = {}
  BY Quiet DEF DeferTimeout
<1>3. CASE d \in Elements(pendingDeliveries) /\ d \in deferred
  <2>1. status' = Settle({d}, "rejected") /\ pendingDeliveries' = Without(pendingDeliveries, d)
    BY <1>3 DEF DeferTimeout
  <2>2. /\ Queued(pendingDeliveries', 0, deferred)
        /\ Elements(pendingDeliveries') = Elements(pendingDeliveries) \ {d}
    BY <1>2, <1>3, <2>1, DroppedQueued
  <2>3. Answerable'
    <3>1. Answerable
      BY DEF HInv, Kept
    <3> QED BY <1>1, <2>1, <2>2, <3>1, Basics, StillAnswerable
  <2>4. First(pendingDeliveries', 0) = First(pendingDeliveries, 0)
    BY FirstNone
  <2>5. OnTheWay'
    BY <1>1, <1>2, <2>4 DEF HInv, Kept, OnTheWay, sessionVars, sendVars
  <2>6. Contract!Next
    BY <1>1, <1>3, <2>1, Basics, FailStep
  <2> QED BY <1>1, <1>2, <2>2, <2>3, <2>5, <2>6
       DEF HInv, Kept, ContractStep, WellQueued, Attached, sessionVars, sendVars
<1>4. CASE ~(d \in Elements(pendingDeliveries) /\ d \in deferred)
  BY <1>1, <1>4, NothingMoves DEF DeferTimeout
<1> QED BY <1>3, <1>4

(* A dispatch timer that outlasts every run belongs to an entry that waits again: it is
   dropped, and what it held back is sent.                                           *)
LEMMA DispatchTimeoutHealthy ==
    ASSUME Healthy, HInv, NEW d \in Deliveries, DispatchTimeout(d)
    PROVE  Kept' /\ ContractStep
<1>1. UNCHANGED <<sessionVars, reloading, processed>> /\ timer[d] \in Sessions
  BY DEF DispatchTimeout
<1>2. deliverySendCount = 0 /\ InFlight = {} /\ failedSends = {} /\ reloading = {}
  BY Quiet DEF DispatchTimeout
<1>3. CASE timer[d] = session /\ d \in Elements(pendingDeliveries)
  <2> DEFINE q == Without(pendingDeliveries, d)
             c == Decrement(deliverySendCount)
  <2>1. /\ status' = Settle({d}, "rejected")
        /\ \/ ReplayOn(session, run, q, c, {d}, failedSends)
           \/ NoReplay(q, c, {d}, failedSends) /\ run' = run
    BY <1>3 DEF DispatchTimeout
  <2>2. c = 0 /\ Queued(q, 0, deferred) /\ Elements(q) = Elements(pendingDeliveries) \ {d}
    BY <1>2, <1>3, DroppedQueued DEF Decrement
  <2> HIDE DEF q, c
  <2>3. Carries(run, reloading, failedSends, session, First(q, 0))
    BY <1>1, <1>2, <1>3, Basics, FirstNone DEF HInv, Kept, OnTheWay
  <2>4. /\ pendingDeliveries' = q /\ deferred' \subseteq deferred
        /\ Queued(q, deliverySendCount', deferred')
        /\ Carries(run', reloading, failedSends', session, First(q, deliverySendCount'))
        /\ \A t \in Sessions : t # session => run'[t] = run[t]
        /\ Release(failedSends')
    <3>1. run \in Runs /\ session \in Sessions /\ Release(failedSends)
      BY <1>1, <1>3, Basics DEF HInv, Kept
    <3>2. CASE ReplayOn(session, run, q, c, {d}, failedSends)
      BY <2>2, <2>3, <3>1, <3>2, ReplayHealthy
    <3>3. CASE NoReplay(q, c, {d}, failedSends) /\ run' = run
      BY <2>2, <2>3, <3>1, <3>3 DEF NoReplay
    <3> QED BY <2>1, <3>2, <3>3
  <2>5. Answerable'
    <3>1. Answerable
      BY DEF HInv, Kept
    <3> QED BY <2>1, <2>2, <2>4, <3>1, Basics, StillAnswerable
  <2>6. Elsewhere(run', session')
    BY <1>1, <2>4 DEF HInv, Kept, Elsewhere, sessionVars
  <2>7. Attached'
    BY <1>1, <1>3, Basics DEF HInv, Kept, Attached, sessionVars
  <2>8. WellQueued' /\ OnTheWay'
    BY <1>1, <2>4 DEF WellQueued, OnTheWay, sessionVars
  <2>9. Contract!Next
    BY <1>1, <1>3, <2>1, Basics, FailStep
  <2> QED BY <2>4, <2>5, <2>6, <2>7, <2>8, <2>9 DEF Kept, ContractStep
<1>4. CASE ~(timer[d] = session /\ d \in Elements(pendingDeliveries))
  BY <1>1, <1>4, NothingMoves DEF DispatchTimeout, sendVars
<1> QED BY <1>3, <1>4

-----------------------------------------------------------------------------
(* The end of a run *)

(* What agent_end leaves in the queue is what was deferred. *)
LEMMA RestQueued ==
    ASSUME NEW q, NEW c, NEW D, Queued(q, c, D)
    PROVE  /\ Queued(SubSeq(q, c + 1, Len(q)), 0, D)
           /\ Elements(SubSeq(q, c + 1, Len(q))) \subseteq Elements(q) \ First(q, c)
<1> DEFINE b == SubSeq(q, c + 1, Len(q))
           n == Len(q) - c
<1>1. /\ q \in Seq(Deliveries) /\ Len(q) \in Nat /\ c \in 0..Len(q)
      /\ Distinct(q) /\ Prefix(q, c, D)
  BY DEF Queued, Prefix
<1>2. b \in Seq(Deliveries) /\ Len(b) = n /\ \A i \in 1..n : b[i] = q[c + i]
  BY <1>1
<1> HIDE DEF b
<1>3. \A i \in 1..n : c + i \in 1..Len(q) /\ c + i > c
  BY <1>1
<1>4. Distinct(b)
  <2> SUFFICES ASSUME NEW i \in 1..n, NEW j \in 1..n, b[i] = b[j] PROVE i = j
    BY <1>2 DEF Distinct
  <2>1. c + i = c + j
    BY <1>1, <1>2, <1>3 DEF Distinct
  <2> QED BY <1>1, <2>1
<1>5. Prefix(b, 0, D)
  <2>1. \A i \in 1..n : i > 0 /\ b[i] \in D
    BY <1>1, <1>2, <1>3 DEF Prefix
  <2>2. 0 \in 0..n
    BY <1>1
  <2> QED BY <1>2, <2>1, <2>2 DEF Prefix
<1>6. Elements(b) \subseteq Elements(q) \ First(q, c)
  <2> SUFFICES ASSUME NEW i \in 1..n PROVE b[i] \in Elements(q) \ First(q, c)
    BY <1>1, <1>2 DEF Elements
  <2>1. b[i] \in Elements(q)
    <3>1. c + i \in DOMAIN q /\ b[i] = q[c + i]
      BY <1>1, <1>2, <1>3
    <3> QED BY <3>1 DEF Elements
  <2>2. \A j \in 1..c : q[j] # q[c + i]
    BY <1>1, <1>3 DEF Distinct
  <2> QED BY <1>2, <2>1, <2>2 DEF First
<1> QED BY <1>2, <1>4, <1>5, <1>6 DEF Queued, b

(* agent_end: the run that ends held exactly the deliveries that are resolved. *)
LEMMA RunEndsHealthy ==
    ASSUME Healthy, HInv, NEW s \in Sessions, NEW errored \in BOOLEAN, RunEnds(s, errored)
    PROVE  Kept' /\ ContractStep
<1> DEFINE k == Smaller(deliverySendCount, Len(pendingDeliveries))
           rest == SubSeq(pendingDeliveries, k + 1, Len(pendingDeliveries))
           ended == [run EXCEPT ![s] = NoRun]
<1>1. s = session /\ session # 0 /\ ~isReinitializing /\ errored = FALSE /\ SendsSettled
  BY Basics DEF RunEnds, HInv, Kept, Attached
<1>2. /\ reloading = {} /\ failedSends = {}
      /\ \A d \in Deliveries : run[session][d] = IF d \in InFlight THEN 1 ELSE 0
  BY <1>1, AllSent
<1>3. /\ status' = Settle(InFlight, "resolved")
      /\ processed' = processed \cup {d \in Deliveries : run[s][d] > 0}
      /\ reloading' = reloading
  BY <1>1 DEF RunEnds
<1>4. \/ ResetSession(ended) /\ NoReplay(rest, 0, InFlight, failedSends)
      \/ /\ UNCHANGED sessionVars
         /\ ReplayOn(session, ended, rest, 0, InFlight, failedSends)
      \/ UNCHANGED sessionVars /\ NoReplay(rest, 0, InFlight, failedSends) /\ run' = ended
  BY DEF RunEnds
<1>5. /\ Queued(rest, 0, deferred)
      /\ Elements(rest) \subseteq Elements(pendingDeliveries) \ InFlight
  <2>1. Queued(pendingDeliveries, deliverySendCount, deferred) /\ k = deliverySendCount
    BY Basics DEF HInv, Kept, WellQueued
  <2>2. InFlight = First(pendingDeliveries, deliverySendCount)
    BY Basics
  <2> HIDE DEF k
  <2> QED BY <2>1, <2>2, RestQueued
<1>6. /\ ended \in Runs
      /\ \A t \in Sessions : ended[t] = NoRun
      /\ \A d \in Deliveries : ended[s][d] = 0
  BY <1>1, Basics DEF HInv, Kept, Elsewhere, Runs, NoRun, Messages
<1> HIDE DEF k, rest, ended
<1>7. Contract!Next
  <2>1. {d \in Deliveries : run[s][d] > 0} = InFlight
    BY <1>1, <1>2, Basics
  <2>2. InFlight \in SUBSET Deliveries /\ \A d \in InFlight : status[d] = "pending"
    BY Basics
  <2>3. status' = Contract!Answer(InFlight, "resolved")
    BY <1>3, <2>2 DEF Settle, Contract!Answer
  <2>4. Contract!Complete(InFlight)
    BY <1>3, <2>1, <2>2, <2>3 DEF Contract!Complete, Contract!Pending
  <2> QED BY <2>2, <2>4 DEF Contract!Next
<1>8. ASSUME pendingDeliveries' = rest, deferred' \subseteq deferred
      PROVE  Answerable'
  <2>1. Answerable
    BY DEF HInv, Kept
  <2> QED BY <1>3, <1>5, <1>8, <2>1, Basics, StillAnswerable
<1>9. CASE ResetSession(ended) /\ NoReplay(rest, 0, InFlight, failedSends)
  <2>1. /\ session' = 0 /\ subscribed' = {} /\ unsubscribeSession' = 0 /\ isReinitializing'
        /\ resetInits' = 1
    BY <1>1, <1>9 DEF ResetSession, HInv, Kept, Attached
  <2>2. Elsewhere(run', session')
    BY <1>9, <2>1 DEF ResetSession, Observable, Elsewhere
  <2>3. /\ pendingDeliveries' = rest /\ deliverySendCount' = 0 /\ failedSends' = failedSends
        /\ deferred' = deferred
    BY <1>9 DEF NoReplay
  <2> QED BY <1>2, <1>5, <1>7, <1>8, <2>1, <2>2, <2>3
       DEF HInv, Kept, ContractStep, WellQueued, Attached, OnTheWay
<1>10. CASE /\ UNCHANGED sessionVars
            /\ \/ ReplayOn(session, ended, rest, 0, InFlight, failedSends)
               \/ NoReplay(rest, 0, InFlight, failedSends) /\ run' = ended
  <2>1. Carries(ended, reloading, failedSends, session, First(rest, 0))
    BY <1>1, <1>2, <1>6, FirstNone, CarriesNothing
  <2>2. /\ pendingDeliveries' = rest /\ deferred' \subseteq deferred
        /\ Queued(rest, deliverySendCount', deferred')
        /\ Carries(run', reloading, failedSends', session, First(rest, deliverySendCount'))
        /\ \A t \in Sessions : t # session => run'[t] = ended[t]
        /\ Release(failedSends')
    <3>1. session \in Sessions /\ Release(failedSends)
      BY <1>1 DEF HInv, Kept
    <3>2. CASE ReplayOn(session, ended, rest, 0, InFlight, failedSends)
      BY <1>5, <1>6, <2>1, <3>1, <3>2, ReplayHealthy
    <3>3. CASE NoReplay(rest, 0, InFlight, failedSends) /\ run' = ended
      BY <1>5, <2>1, <3>1, <3>3 DEF NoReplay
    <3> QED BY <1>10, <3>2, <3>3
  <2>3. Answerable'
    BY <1>8, <2>2
  <2>4. Elsewhere(run', session')
    BY <1>6, <1>10, <2>2 DEF Elsewhere, sessionVars
  <2>5. Attached'
    BY <1>1, <1>10 DEF HInv, Kept, Attached, sessionVars
  <2>6. WellQueued' /\ OnTheWay'
    BY <1>3, <1>10, <2>2 DEF WellQueued, OnTheWay, sessionVars
  <2> QED BY <1>7, <2>2, <2>3, <2>4, <2>5, <2>6 DEF Kept, ContractStep
<1> QED BY <1>4, <1>9, <1>10

(* Nothing runs where the host does not listen. *)
LEMMA NothingUnseen ==
    ASSUME HInv, NEW s \in Sessions, RunEndsUnseen(s)
    PROVE  FALSE
BY Basics DEF HInv, Kept, Attached, Elsewhere, RunEndsUnseen, Running

-----------------------------------------------------------------------------
(* Resets *)

(* The new session of a reset gets what queued up meanwhile. *)
LEMMA ResetSucceedsHealthy ==
    ASSUME HInv, ResetSucceeds
    PROVE  Kept' /\ ContractStep
<1>1. PICK s \in Sessions :
         /\ Install(s)
         /\ ReplayOn(s, Observable(run, subscribed'), pendingDeliveries, deliverySendCount,
                     {}, failedSends)
  BY DEF ResetSucceeds
<1>2. /\ resetInits > 0 /\ resetInits' = resetInits - 1
      /\ UNCHANGED <<status, reloading, processed>>
  BY DEF ResetSucceeds
<1>3. session = 0 /\ isReinitializing /\ resetInits = 1 /\ subscribed = {} /\ deliverySendCount = 0
  BY <1>2 DEF HInv, Kept, Attached
<1>4. /\ session' = s /\ subscribed' = {s} /\ unsubscribeSession' = s /\ isReinitializing' = FALSE
  BY <1>1, <1>3 DEF Install
<1>5. /\ \A l \in reloading : l.on # s
      /\ \A f \in failedSends : f.on # s
  BY <1>1 DEF Install, NewSession, FreshSessions
<1> DEFINE r == Observable(run, subscribed')
<1>6. \A t \in Sessions : r[t] = NoRun
  BY <1>3, Basics DEF HInv, Kept, Elsewhere, Observable
<1>7. r \in Runs
  BY Basics DEF Observable, Runs, NoRun
<1> HIDE DEF r
<1>8. Carries(r, reloading, failedSends, s, First(pendingDeliveries, deliverySendCount))
  <2>1. \A d \in Deliveries : r[s][d] = 0
    BY <1>6 DEF NoRun, Messages
  <2> QED BY <1>3, <1>5, <2>1, FirstNone, CarriesNothing
<1>9. /\ pendingDeliveries' = pendingDeliveries /\ deferred' \subseteq deferred
      /\ Queued(pendingDeliveries, deliverySendCount', deferred')
      /\ Carries(run', reloading, failedSends', s, First(pendingDeliveries, deliverySendCount'))
      /\ \A t \in Sessions : t # s => run'[t] = r[t]
      /\ Release(failedSends')
  <2>1. /\ Queued(pendingDeliveries, deliverySendCount, deferred) /\ Release(failedSends)
        /\ deliverySendCount > 0 => Chats(pendingDeliveries, deliverySendCount)
    BY <1>3 DEF HInv, Kept, WellQueued
  <2>2. ReplayOn(s, r, pendingDeliveries, deliverySendCount, {}, failedSends)
    BY <1>1 DEF r
  <2> QED BY <1>7, <1>8, <2>1, <2>2, ReplayHealthy
<1>10. Answerable'
  BY <1>2, <1>9 DEF HInv, Kept, Answerable, SettledLeaveQueue
<1>11. Elsewhere(run', session')
  BY <1>4, <1>6, <1>9 DEF Elsewhere
<1>12. Attached'
  BY <1>2, <1>3, <1>4, Basics DEF Attached
<1>13. WellQueued' /\ OnTheWay'
  BY <1>2, <1>4, <1>9 DEF WellQueued, OnTheWay
<1> QED BY <1>2, <1>9, <1>10, <1>11, <1>12, <1>13 DEF Kept, ContractStep

(* A reset whose initialize() throws rejects what queued up meanwhile. *)
LEMMA ResetFailsHealthy ==
    ASSUME HInv, ResetFails
    PROVE  Kept' /\ ContractStep
<1>1. /\ resetInits > 0 /\ resetInits' = resetInits - 1 /\ RejectAll /\ deliverySendCount' = 0
      /\ isReinitializing' = FALSE
      /\ UNCHANGED <<session, subscribed, unsubscribeSession, sendVars, run, processed>>
  BY DEF ResetFails
<1>2. session = 0 /\ resetInits = 1
  BY <1>1 DEF HInv, Kept, Attached
<1>3. Attached' /\ Elsewhere(run', session') /\ Release(failedSends') /\ OnTheWay'
  BY <1>1, <1>2 DEF HInv, Kept, Attached, OnTheWay, sendVars
<1> QED BY <1>1, <1>3, RejectedAll DEF Kept, ContractStep

(* Reclaiming a bloated session abandons nothing: none of its entries is in flight. *)
LEMMA ReclaimHealthy ==
    ASSUME HInv, Reclaim
    PROVE  Kept' /\ ContractStep
<1>1. /\ ~isReinitializing /\ deliverySendCount = 0 /\ ResetSession(run)
      /\ UNCHANGED <<queueVars, sendVars, processed>>
  BY DEF Reclaim
<1>2. /\ session' = 0 /\ subscribed' = {} /\ unsubscribeSession' = 0 /\ isReinitializing'
      /\ resetInits' = 1
  BY <1>1 DEF ResetSession, HInv, Kept, Attached
<1>3. Elsewhere(run', session')
  BY <1>1, <1>2 DEF ResetSession, Observable, Elsewhere
<1> QED BY <1>1, <1>2, <1>3
     DEF HInv, Kept, ContractStep, Answerable, SettledLeaveQueue, WellQueued, Attached, OnTheWay,
         queueVars, sendVars

-----------------------------------------------------------------------------
(* The theorems *)

(* Initially nothing is queued and session 1 is heard. *)
LEMMA InitHInv == Init => HInv
<1> SUFFICES ASSUME Init PROVE HInv
  OBVIOUS
<1>1. /\ pendingDeliveries = <<>> /\ deliverySendCount = 0 /\ deferred = {} /\ session = 1
      /\ reloading = {} /\ failedSends = {} /\ run = [s \in Sessions |-> NoRun] /\ 1 \in Sessions
  BY ConstantsAssumption DEF Init
<1>2. Answerable
  BY <1>1 DEF Answerable, SettledLeaveQueue, Elements
<1>3. WellQueued
  BY <1>1 DEF WellQueued, Queued, Distinct, Prefix
<1>4. Carries(run, reloading, failedSends, session, First(pendingDeliveries, deliverySendCount))
  <2>1. \A d \in Deliveries : run[session][d] = 0
    BY <1>1 DEF NoRun, Messages
  <2> QED BY <1>1, <2>1, FirstNone, CarriesNothing
<1>5. Attached /\ Elsewhere(run, session) /\ Release(failedSends)
  BY <1>1 DEF Init, Attached, Elsewhere, Release
<1> QED BY <1>2, <1>3, <1>4, <1>5, InitIInv DEF HInv, Kept, OnTheWay

(* Every step keeps the invariant, and is a step of the contract or none of its concern. *)
LEMMA NextHInv == Healthy /\ HInv /\ [Next]_vars => HInv' /\ ContractStep
<1> SUFFICES ASSUME Healthy, HInv, [Next]_vars PROVE HInv' /\ ContractStep
  OBVIOUS
<1>1. IInv'
  BY NextIInv DEF HInv
<1>2. Kept' /\ ContractStep
  <2>1. CASE UNCHANGED vars
    BY <2>1, NothingMoves DEF vars, queueVars
  <2>2. ASSUME NEW d \in Deliveries,
               DeliverRejected(d) \/ DeliverMessage(d) \/ DeferTimeout(d) \/ DispatchTimeout(d)
        PROVE  Kept' /\ ContractStep
    BY <2>2, RefuseHealthy, AcceptHealthy, DeferTimeoutHealthy, DispatchTimeoutHealthy
  <2>3. CASE \E r \in reloading : ReloadEnds(r)
    BY <2>3, ReloadHealthy
  <2>4. CASE \E f \in failedSends : SendFails(f)
    BY <2>4, SendFailsHealthy
  <2>5. CASE UserPrompt \/ PromptReloadEnds
    BY <2>5, PromptHealthy
  <2>6. CASE Abort
    BY <2>6, AbortHealthy
  <2>7. ASSUME NEW s \in Sessions, TurnStarts(s) \/ ModelOutput(s)
        PROVE  Kept' /\ ContractStep
    BY <2>7, NothingMoves DEF TurnStarts, ModelOutput, queueVars
  <2>8. ASSUME NEW s \in Sessions, RunEndsUnseen(s) PROVE Kept' /\ ContractStep
    BY <2>8, NothingUnseen
  <2>9. ASSUME NEW s \in Sessions, NEW errored \in BOOLEAN, RunEnds(s, errored)
        PROVE  Kept' /\ ContractStep
    BY <2>9, RunEndsHealthy
  <2>10. CASE ResetSucceeds
    BY <2>10, ResetSucceedsHealthy
  <2>11. CASE ResetFails
    BY <2>11, ResetFailsHealthy
  <2>12. CASE Reclaim
    BY <2>12, ReclaimHealthy
  <2>13. ErrorIds = {}
    BY DEF Healthy
  <2> QED BY <2>1, <2>2, <2>3, <2>4, <2>5, <2>6, <2>7, <2>8, <2>9, <2>10, <2>11, <2>12, <2>13
          DEF Next
<1> QED BY <1>1, <1>2 DEF HInv

(* HInv holds in every reachable state of a host none of whose requests errors. *)
THEOREM HealthyInvariance == ASSUME Healthy PROVE Spec => []HInv
<1>1. HInv /\ [Next]_vars => HInv'
  BY NextHInv
<1> QED BY <1>1, InitHInv, PTL DEF Spec

(* The first deliverySendCount entries are the ones in flight: agent_end's shift takes
   exactly what its run has processed.                                              *)
THEOREM PrefixKept == ASSUME Healthy PROVE Spec => []InFlightPrefix
<1>1. HInv => InFlightPrefix
  BY Basics DEF HInv, Kept, WellQueued, Queued, Prefix, InFlightPrefix
<1> QED BY <1>1, HealthyInvariance, PTL

(* A delivery in a run is in flight, once, in the only run there is. *)
LEMMA InRun ==
    ASSUME HInv, NEW s \in Sessions, NEW d \in Deliveries, run[s][d] > 0
    PROVE  s = session /\ run[s][d] = 1 /\ d \in InFlight
<1>1. s = session
  BY DEF HInv, Kept, Elsewhere, NoRun, Messages
<1>2. Carries(run, reloading, failedSends, session, InFlight)
  BY <1>1, Basics DEF HInv, Kept, OnTheWay
<1> QED BY <1>1, <1>2 DEF Carries, Sent, Unsent

(* A scheduled task never shares its run with another delivery. *)
THEOREM TasksRunAlone == ASSUME Healthy PROVE Spec => []ScheduledAlone
<1>1. HInv => ScheduledAlone
  <2> SUFFICES ASSUME HInv, NEW s \in Sessions, NEW d \in Scheduled, run[s][d] > 0
               PROVE  run[s][d] = 1 /\ \A e \in Deliveries \ {d} : run[s][e] = 0
    BY DEF ScheduledAlone
  <2>1. d \in Deliveries /\ \A e \in Deliveries : run[s][e] \in Nat
    BY ConstantsAssumption, Basics DEF Runs, Messages
  <2>2. run[s][d] = 1 /\ d \in InFlight
    BY <2>1, InRun
  <2>3. ASSUME NEW e \in InFlight, e # d PROVE FALSE
    <3>1. PICK i \in 1..deliverySendCount : d = pendingDeliveries[i]
      BY <2>2, Basics DEF First
    <3>2. PICK j \in 1..deliverySendCount : e = pendingDeliveries[j]
      BY <2>3, Basics DEF First
    <3>3. deliverySendCount > 1
      BY <2>3, <3>1, <3>2, Basics
    <3>4. Chats(pendingDeliveries, deliverySendCount)
      BY <3>3 DEF HInv, Kept, WellQueued, Queued
    <3> QED BY <3>1, <3>4 DEF Chats
  <2>4. ASSUME NEW e \in Deliveries, e # d, run[s][e] > 0 PROVE FALSE
    BY <2>3, <2>4, InRun
  <2> QED BY <2>1, <2>2, <2>4
<1> QED BY <1>1, HealthyInvariance, PTL

(* No delivery is in two runs, or in one run twice. *)
THEOREM SentOnce == ASSUME Healthy PROVE Spec => []NoDoubleSend
<1>1. HInv => NoDoubleSend
  BY InRun DEF NoDoubleSend
<1> QED BY <1>1, HealthyInvariance, PTL

(* No delivery runs whose sender has been answered. *)
THEOREM AnsweredRunsNoMore == ASSUME Healthy PROVE Spec => []AnsweredNotRunning
<1>1. HInv => AnsweredNotRunning
  BY InRun, Basics DEF AnsweredNotRunning
<1> QED BY <1>1, HealthyInvariance, PTL

(* While an initialize() of a reset is under way, isReinitializing says so. *)
THEOREM ReinitAnnounced == ASSUME Healthy PROVE Spec => []ReinitFlagHeld
<1>1. Healthy /\ HInv => ReinitFlagHeld
  BY DEF Healthy, HInv, Kept, Attached, ReinitFlagHeld
<1> QED BY <1>1, HealthyInvariance, PTL

(* The host implements the contract: it accepts, refuses, completes and fails deliveries as
   DeliveryContract allows, and every other step is a stutter to the senders.            *)
THEOREM ContractKept ==
    ASSUME Healthy PROVE Spec => Contract!Init /\ [][Contract!Next]_(Contract!contractVars)
<1>1. Init => Contract!Init
  BY DEF Init, Contract!Init
<1>2. HInv /\ [Next]_vars => [Contract!Next]_(Contract!contractVars)
  BY NextHInv DEF ContractStep, Contract!contractVars
<1> QED BY <1>1, <1>2, HealthyInvariance, PTL DEF Spec

-----------------------------------------------------------------------------
(* Watchdogs and triggers of a host none of whose requests errors *)

\* Outside a reset, whatever is queued is behind something in flight.
Moving == pendingDeliveries # <<>> /\ ~isReinitializing => session # 0 /\ deliverySendCount > 0

(* A replay that finds anything dispatches something. *)
LEMMA ReplayMoves ==
    ASSUME NEW s, NEW r, NEW q \in Seq(Deliveries), NEW count \in Nat, NEW out, NEW fails,
           ReplayOn(s, r, q, count, out, fails)
    PROVE  pendingDeliveries' # <<>> => deliverySendCount' > 0
<1> DEFINE places == Dispatched(q, count)
<1>1. /\ pendingDeliveries' = q /\ deliverySendCount' = count + Cardinality(places)
  BY DEF ReplayOn
<1>2. Cardinality(places) \in Nat
  BY DispatchedCount
<1>3. CASE count = 0 /\ q # <<>>
  <2>1. Len(q) \in Nat /\ Len(q) # 0
    BY <1>3
  <2>2. 1 \in places
    BY <1>3, <2>1 DEF Dispatched
  <2>3. IsFiniteSet(places)
    <3>1. IsFiniteSet(1..Len(q)) /\ places \subseteq 1..Len(q)
      BY <2>1, FS_Interval DEF Dispatched
    <3> QED BY <3>1, FS_Subset
  <2> HIDE DEF places
  <2>4. Cardinality(places) # 0
    BY <2>2, <2>3, FS_EmptySet
  <2> QED BY <1>1, <1>2, <1>3, <2>4
<1>4. CASE count > 0
  BY <1>1, <1>2, <1>4
<1> QED BY <1>1, <1>3, <1>4

(* A queue that is left without a replay since nothing in it is deferred is in flight. *)
LEMMA RestMoves ==
    ASSUME WellQueued', ~HasDeferred(pendingDeliveries'), deferred' = deferred
    PROVE  pendingDeliveries' # <<>> => deliverySendCount' > 0
<1>1. /\ pendingDeliveries' \in Seq(Deliveries) /\ deliverySendCount' \in 0..Len(pendingDeliveries')
      /\ \A i \in 1..Len(pendingDeliveries') : i > deliverySendCount' <=> pendingDeliveries'[i] \in deferred
  BY DEF WellQueued, Queued, Prefix
<1>2. CASE pendingDeliveries' # <<>> /\ deliverySendCount' = 0
  <2>1. 1 \in 1..Len(pendingDeliveries')
    BY <1>1, <1>2
  <2>2. pendingDeliveries'[1] \in Elements(pendingDeliveries') /\ pendingDeliveries'[1] \in deferred
    BY <1>1, <1>2, <2>1 DEF Elements
  <2> QED BY <2>2 DEF HasDeferred
<1> QED BY <1>1, <1>2

(* Something is under way as long as anything is queued. *)
LEMMA MovingUnderway ==
    ASSUME HInv, Moving, pendingDeliveries # <<>>
    PROVE  Underway
<1>1. CASE isReinitializing
  BY <1>1 DEF Underway
<1>2. CASE ~isReinitializing
  <2> DEFINE d == pendingDeliveries[1]
  <2>1. session # 0 /\ deliverySendCount > 0 /\ session \in Sessions /\ session \in subscribed
    BY <1>2 DEF Moving, HInv, IInv, TypeOK, Kept, Attached
  <2>2. d \in Deliveries /\ d \in First(pendingDeliveries, deliverySendCount)
    <3>1. pendingDeliveries \in Seq(Deliveries) /\ deliverySendCount \in Nat
      BY DEF HInv, IInv, TypeOK
    <3>2. 1 \in 1..Len(pendingDeliveries) /\ 1 \in 1..deliverySendCount
      BY <2>1, <3>1
    <3> QED BY <3>1, <3>2 DEF First
  <2>3. Sent(run, reloading, failedSends, session, d)
    BY <2>1, <2>2 DEF HInv, Kept, OnTheWay, Carries
  <2> HIDE DEF d
  <2>4. run[session][d] = 1 => Running(session)
    BY <2>2 DEF Running, NoRun, Messages
  <2> QED BY <2>1, <2>3, <2>4 DEF Sent, Loading, Failing, Underway
<1> QED BY <1>1, <1>2

(* The catch of a send. *)
LEMMA CatchMoves ==
    ASSUME HInv, WellQueued', Moving, NEW d \in Deliveries, NEW s, NEW out, NEW fails,
           SendCatch(d, s, out, TRUE, fails), UNCHANGED <<session, isReinitializing>>
    PROVE  Moving'
<1> DEFINE q == Without(pendingDeliveries, d)
           count == Decrement(deliverySendCount)
<1>1. pendingDeliveries \in Seq(Deliveries) /\ deliverySendCount \in Nat
  BY DEF HInv, IInv, TypeOK
<1>2. q \in Seq(Deliveries) /\ count \in Nat
  BY <1>1, WithoutType DEF Decrement
<1>3. CASE session # s
  BY <1>3 DEF SendCatch, queueVars, Moving
<1>4. CASE session = s
  <2>1. \/ ReplayOn(s, run, q, count, out, fails)
        \/ ~HasDeferred(q) /\ NoReplay(q, count, out, fails)
    BY <1>4 DEF SendCatch
  <2> HIDE DEF q, count
  <2>2. pendingDeliveries' # <<>> => deliverySendCount' > 0
    <3>1. CASE ReplayOn(s, run, q, count, out, fails)
      BY <1>2, <3>1, ReplayMoves
    <3>2. CASE ~HasDeferred(q) /\ NoReplay(q, count, out, fails)
      BY <3>2, RestMoves DEF NoReplay
    <3> QED BY <2>1, <3>1, <3>2
  <2>3. pendingDeliveries = <<>> => pendingDeliveries' = <<>>
    <3>1. pendingDeliveries' = q
      BY <2>1 DEF ReplayOn, NoReplay
    <3>2. pendingDeliveries = <<>> => q = pendingDeliveries
      BY DEF q, Without, Elements
    <3> QED BY <3>1, <3>2
  <2> QED BY <2>2, <2>3 DEF Moving
<1> QED BY <1>3, <1>4

(* A watchdog fires: a deferred entry's never does while anything is under way. *)
LEMMA TimeoutMoves ==
    ASSUME Healthy, HInv, WellQueued', Moving, NEW d \in Deliveries,
           DeferTimeout(d) \/ DispatchTimeout(d)
    PROVE  Moving'
<1>1. UNCHANGED <<session, isReinitializing>>
  BY DEF DeferTimeout, DispatchTimeout, sessionVars
<1>2. CASE UNCHANGED <<pendingDeliveries, deliverySendCount>>
  BY <1>1, <1>2 DEF Moving
<1>3. pendingDeliveries = <<>>
  <2>1. ~Underway
    BY DEF Healthy, DeferTimeout, DispatchTimeout
  <2> QED BY <2>1, MovingUnderway
<1> QED BY <1>2, <1>3 DEF DeferTimeout, DispatchTimeout, Elements

(* A run ends: the rest is dispatched, or waits for the reset. *)
LEMMA EndMoves ==
    ASSUME HInv, WellQueued', Moving, NEW s \in Sessions, NEW errored, RunEnds(s, errored)
    PROVE  Moving'
<1> DEFINE rest == SubSeq(pendingDeliveries,
                          Smaller(deliverySendCount, Len(pendingDeliveries)) + 1,
                          Len(pendingDeliveries))
           ended == [run EXCEPT ![s] = NoRun]
<1>1. session # 0 /\ ~isReinitializing
  BY DEF RunEnds, HInv, Kept, Attached
<1>2. pendingDeliveries \in Seq(Deliveries) /\ deliverySendCount \in Nat
  BY DEF HInv, IInv, TypeOK
<1>3. rest \in Seq(Deliveries)
  BY <1>2 DEF Smaller
<1>4. \/ ResetSession(ended)
      \/ UNCHANGED sessionVars /\ ReplayOn(session, ended, rest, 0, InFlight, failedSends)
      \/ UNCHANGED sessionVars /\ ~HasDeferred(rest) /\ NoReplay(rest, 0, InFlight, failedSends)
  BY <1>1 DEF RunEnds
<1> HIDE DEF rest, ended
<1>5. CASE ResetSession(ended)
  BY <1>5 DEF ResetSession, Moving
<1>6. CASE UNCHANGED sessionVars /\ ReplayOn(session, ended, rest, 0, InFlight, failedSends)
  <2>1. 0 \in Nat
    OBVIOUS
  <2>2. pendingDeliveries' # <<>> => deliverySendCount' > 0
    BY <1>3, <1>6, <2>1, ReplayMoves
  <2> QED BY <1>1, <1>6, <2>2 DEF Moving, sessionVars
<1>7. CASE UNCHANGED sessionVars /\ ~HasDeferred(rest) /\ NoReplay(rest, 0, InFlight, failedSends)
  <2>1. pendingDeliveries' # <<>> => deliverySendCount' > 0
    BY <1>7, RestMoves DEF NoReplay
  <2> QED BY <1>1, <1>7, <2>1 DEF Moving, sessionVars
<1> QED BY <1>4, <1>5, <1>6, <1>7

(* A delivery that nothing gates is sent at once. *)
LEMMA DeliverMoves ==
    ASSUME HInv, Moving, NEW d \in Deliveries, DeliverRejected(d) \/ DeliverMessage(d)
    PROVE  Moving'
<1>1. UNCHANGED <<session, isReinitializing>>
  BY DEF DeliverRejected, DeliverMessage, sessionVars
<1>2. pendingDeliveries \in Seq(Deliveries) /\ deliverySendCount \in Nat /\ deliverySendCount <= Len(pendingDeliveries)
  BY Basics DEF HInv, IInv, TypeOK, Kept, WellQueued, Queued, Prefix
<1>3. CASE DeliverRejected(d)
  BY <1>1, <1>3 DEF Moving, DeliverRejected
<1>4. CASE DeliverMessage(d) /\ Gated(d)
  <2>1. ~isReinitializing => session # 0
    BY <1>4 DEF DeliverMessage
  <2>2. CASE pendingDeliveries = <<>>
    <3>1. Len(pendingDeliveries) = 0 /\ deliverySendCount = 0
      BY <1>2, <2>2
    <3>2. InFlight = {}
      BY <3>1 DEF InFlight, Smaller
    <3> QED BY <1>1, <1>4, <2>1, <3>1, <3>2 DEF Gated, Moving
  <2>3. CASE pendingDeliveries # <<>>
    BY <1>1, <1>4, <2>3 DEF Moving, DeliverMessage
  <2> QED BY <2>2, <2>3
<1>5. CASE DeliverMessage(d) /\ ~Gated(d)
  BY <1>1, <1>2, <1>5 DEF Moving, Gated, DeliverMessage
<1> QED BY <1>3, <1>4, <1>5

(* Every step. *)
LEMMA NextMoving ==
    ASSUME Healthy, HInv, Moving, [Next]_vars
    PROVE  Moving'
<1>1. WellQueued' /\ pendingDeliveries \in Seq(Deliveries) /\ deliverySendCount \in Nat
  BY NextHInv DEF HInv, Kept, IInv, TypeOK
<1>2. CASE \E d \in Deliveries : DeliverRejected(d) \/ DeliverMessage(d) \/ DeferTimeout(d) \/ DispatchTimeout(d)
  BY <1>1, <1>2, DeliverMoves, TimeoutMoves
<1>3. CASE (\E r \in reloading : ReloadEnds(r)) \/ (\E f \in failedSends : SendFails(f))
  <2>1. /\ \A r \in reloading : r.d \in Deliveries
        /\ \A f \in failedSends : f.d \in Deliveries /\ f.release = TRUE
    BY DEF HInv, IInv, TypeOK, Kept, Release
  <2>2. UNCHANGED <<session, isReinitializing>>
    BY <1>3 DEF ReloadEnds, SendFails, sessionVars
  <2>3. UNCHANGED queueVars \/ \E d \in Deliveries : \E s, out, fails : SendCatch(d, s, out, TRUE, fails)
    <3>1. ASSUME NEW r \in reloading, ReloadEnds(r)
          PROVE  UNCHANGED queueVars \/ SendCatch(r.d, r.on, {r.d} \cap Elements(pendingDeliveries), TRUE, failedSends)
      BY <3>1 DEF ReloadEnds
    <3>2. ASSUME NEW f \in failedSends, SendFails(f)
          PROVE  SendCatch(f.d, f.on, {f.d}, TRUE, failedSends \ {f})
      <4>1. SendCatch(f.d, f.on, {f.d}, f.release, failedSends \ {f}) /\ f.release = TRUE
        BY <2>1, <3>2 DEF SendFails
      <4> QED BY <4>1
    <3> QED BY <1>3, <2>1, <3>1, <3>2
  <2>4. CASE UNCHANGED queueVars
    BY <2>2, <2>4 DEF queueVars, Moving
  <2> QED BY <1>1, <2>2, <2>3, <2>4, CatchMoves
<1>4. CASE UserPrompt \/ PromptReloadEnds \/ (\E s \in Sessions : TurnStarts(s) \/ ModelOutput(s) \/ RunEndsUnseen(s))
              \/ UNCHANGED vars
  <2>1. UNCHANGED queueVars /\ UNCHANGED sessionVars
    BY <1>4 DEF UserPrompt, PromptReloadEnds, TurnStarts, ModelOutput, RunEndsUnseen, vars
  <2> QED BY <2>1 DEF queueVars, sessionVars, Moving
<1>5. CASE Abort \/ ResetFails
  BY <1>5 DEF Abort, ResetFails, RejectAll, Moving
<1>6. CASE \E s \in Sessions : \E errored \in BOOLEAN : RunEnds(s, errored)
  BY <1>1, <1>6, EndMoves
<1>7. CASE ResetSucceeds
  <2>1. \E s \in Sessions : \E r : session' = s /\ ReplayOn(s, r, pendingDeliveries, deliverySendCount, {}, failedSends)
    BY <1>7 DEF ResetSucceeds, Install
  <2>2. session' # 0
    BY <2>1, ConstantsAssumption
  <2>3. pendingDeliveries' # <<>> => deliverySendCount' > 0
    BY <1>1, <2>1, ReplayMoves
  <2> QED BY <2>2, <2>3 DEF Moving
<1>8. CASE Reclaim
  BY <1>8 DEF Reclaim, ResetSession, Moving
<1>9. ErrorIds = {}
  BY DEF Healthy
<1> QED BY <1>2, <1>3, <1>4, <1>5, <1>6, <1>7, <1>8, <1>9 DEF Next

(* No deferred delivery waits for nothing: a run, a reset or a send that is under way
   dispatches it (replayPendingDeliveries, and every path that calls it).           *)
THEOREM DeferredTriggered == ASSUME Healthy PROVE Spec => []DeferredHasTrigger
<1> DEFINE TriggerInv == HInv /\ Moving
<1>1. Init => TriggerInv
  <2>1. Init => Moving
    BY DEF Init, Moving
  <2> QED BY <2>1, InitHInv
<1>2. TriggerInv /\ [Next]_vars => TriggerInv'
  BY NextHInv, NextMoving
<1>3. TriggerInv => DeferredHasTrigger
  <2>1. HasDeferred(pendingDeliveries) => pendingDeliveries # <<>>
    BY DEF HasDeferred, Elements
  <2> QED BY <2>1, MovingUnderway DEF DeferredHasTrigger
<1> QED BY <1>1, <1>2, <1>3, PTL DEF Spec

(* Who is unanswered and not deferred is in flight. *)
LEMMA PendingInFlight ==
    ASSUME HInv, NEW d \in Deliveries, status[d] = "pending", d \notin deferred
    PROVE  d \in InFlight /\ deliverySendCount > 0
<1>1. PICK i \in 1..Len(pendingDeliveries) : pendingDeliveries[i] = d
  BY DEF HInv, IInv, TypeOK, NoLostPromise, Elements
<1>2. Len(pendingDeliveries) \in Nat /\ deliverySendCount \in Nat /\ i <= deliverySendCount
  BY <1>1 DEF HInv, IInv, TypeOK, Kept, WellQueued, Queued, Prefix
<1>3. i \in 1..Smaller(deliverySendCount, Len(pendingDeliveries))
  BY <1>1, <1>2 DEF Smaller
<1> QED BY <1>1, <1>2, <1>3 DEF InFlight

(* What the watchdogs need of resets. *)
LEMMA ResetsAreSafe == ASSUME Healthy, HInv PROVE ResetsSafe
<1>1. ErrorIds = {}
  BY DEF Healthy
<1>2. resetInits > 0 => deliverySendCount = 0
  BY DEF HInv, Kept, Attached
<1>3. resetInits > 0 => AllDeferred
  BY <1>2, PendingInFlight DEF AllDeferred
<1> QED BY <1>1, <1>3, PendingInFlight DEF ResetsSafe

(* "Every unanswered delivery has a watchdog" also where the session is reset after
   scheduled tasks or reclaimed, as long as no request errors.                     *)
THEOREM ResetsWatched == ASSUME Healthy PROVE Spec => []Watched
<1> DEFINE GuardInv == HInv /\ KnownDelivered /\ Guarded
<1>1. Init => GuardInv
  <2>1. Init => KnownDelivered /\ Guarded
    BY DEF Init, KnownDelivered, Known, Elements, Idle, Guarded
  <2> QED BY <2>1, InitHInv
<1>2. GuardInv /\ Healthy /\ [Next]_vars => GuardInv'
  <2> SUFFICES ASSUME GuardInv, [Next]_vars PROVE GuardInv'
    OBVIOUS
  <2>1. HInv'
    BY NextHInv
  <2>2. KnownDelivered' /\ Guarded'
    BY ResetsAreSafe, NextKnown, NextGuards DEF HInv
  <2> QED BY <2>1, <2>2
<1>3. Healthy /\ GuardInv => Watched
  <2> SUFFICES ASSUME GuardInv, NEW d \in Deliveries, status[d] = "pending", d \notin deferred
               PROVE  timer[d] \in Sessions /\ timer[d] = session
    BY DEF Watched, Guarded
  <2>1. deliverySendCount > 0
    BY PendingInFlight
  <2>2. session # 0
    BY <2>1 DEF HInv, Kept, Attached
  <2> QED BY <2>2 DEF Guarded, HInv, IInv, TypeOK
<1> QED BY <1>1, <1>2, <1>3, PTL DEF Spec
=============================================================================
