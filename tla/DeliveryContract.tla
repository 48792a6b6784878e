-------------------------- MODULE DeliveryContract --------------------------
(***************************************************************************)
(* What AgentHost.deliverMessage promises its callers (host.ts): a promise *)
(* per delivery that resolves when the receiver has processed it, rejects  *)
(* on permanent failure, and is answered in the end. Callers such as       *)
(* trackJobExecution redo rejected work, so a rejected delivery must not   *)
(* be processed as well.                                                   *)
(***************************************************************************)
CONSTANT Deliveries

VARIABLES
    status,     \* the sender's promise: new, pending, resolved, rejected
    processed   \* the deliveries the receiver has processed

contractVars == <<status, processed>>

Pending(S) == \A d \in S : status[d] = "pending"
Answer(S, outcome) == [d \in Deliveries |-> IF d \in S THEN outcome ELSE status[d]]

Init ==
    /\ status = [d \in Deliveries |-> "new"]
    /\ processed = {}

\* deliverMessage queues the delivery, or refuses it at once.
Accept(d) == status[d] = "new" /\ status' = Answer({d}, "pending") /\ UNCHANGED processed
Refuse(d) == status[d] = "new" /\ status' = Answer({d}, "rejected") /\ UNCHANGED processed

\* agent_end: the deliveries of the run are done, and only now their promises resolve.
Complete(S) ==
    /\ Pending(S)
    /\ status' = Answer(S, "resolved")
    /\ processed' = processed \cup S

\* A failure that is reported to the senders and leaves nothing behind.
Fail(S) == Pending(S) /\ status' = Answer(S, "rejected") /\ UNCHANGED processed

Next ==
    \/ \E d \in Deliveries : Accept(d) \/ Refuse(d)
    \/ \E S \in SUBSET Deliveries : Complete(S) \/ Fail(S)

\* Every accepted delivery is answered.
Answered(d) == \E S \in SUBSET Deliveries : d \in S /\ (Complete(S) \/ Fail(S))

Spec == Init /\ [][Next]_contractVars /\ \A d \in Deliveries : WF_contractVars(Answered(d))
=============================================================================
